---- MODULE Spec2Model ----
(***************************************************************************)
(* State-machine model of the UEBA security monitor                        *)
(* (orchestration/workflow_manager.py, class UEBA_Monitor).                *)
(*                                                                         *)
(* Time is the wall clock in whole seconds, counted from local midnight    *)
(* of day 0.  One call of monitor_agent_behavior is one step; every clock  *)
(* reading made inside one call returns the same second.                   *)
(*                                                                         *)
(* Scores are IEEE-754 doubles.  A double d in [0, 2) reachable from the   *)
(* literals 0.05, 0.1, 0.2, 0.3 is an integer multiple N of 2^-57; it is   *)
(* held as the two limbs [hi, lo] with N = hi * 2^29 + lo, and addition    *)
(* rounds to 53 significant bits, ties to even, as the hardware does.      *)
(***************************************************************************)
EXTENDS Integers, Sequences, FiniteSets, TLC

(* ------------------------------ bounds -------------------------------- *)

\* Number of events delivered to the monitor in one run.
MaxEvents == 3

\* Number of events of the burst scenario (SpecBurst).
MaxBurst == 103

\* Events the subscription loop handles, on top of MaxEvents.
MaxLoopEvents == 2

\* Messages of the agents that wait in the subscription at one time.
MaxInbox == 2

\* Events sent in the score-gate scenario.
MaxGateEvents == 5

\* Events sent in the hours scenario.
MaxHourEvents == 1
MaxFailures == 12
MaxRuns == 2
MaxReadings == 102
MaxOtherReadings == 1
MaxAccessorCalls == 5

(* ------------------------------ inputs -------------------------------- *)

Agents == {"X", "Y"}

EventTypes == {"api_call", "message_sent", "request_failed", "data_access"}

\* An event payload is a Python dict, held as a set of <<key, value>> pairs.
SensitivePayload == {<<"sensitive", TRUE>>}
PlainPayload == {<<"sensitive", FALSE>>}
EmptyPayload == {}

\* The payloads tried with each event type.
PayloadsOf(event_type) ==
    IF event_type = "data_access"
    THEN {SensitivePayload, PlainPayload, EmptyPayload}
    ELSE {EmptyPayload}

Hms(h, m, s) == h * 3600 + m * 60 + s

\* The instants at which the clock is observed: 21:59:00, 22:00:00,
\* 23:00:00 and 03:00:00 of the next day.  Their differences hit exactly
\* one minute, exactly one hour and more than one hour, and the hours 21,
\* 22 (usual), 23 and 3 (unusual).
TimePoints ==
    {Hms(21, 59, 0), Hms(22, 0, 0), Hms(23, 0, 0), Hms(27, 0, 0)}

StartTime == Hms(21, 59, 0)

\* datetime.hour of a clock value.
HourOf(t) == (t \div 3600) % 24

\* timestamp.strftime('%Y-%m-%d %H:%M'): the minute the instant falls in.
MinuteKey(t) == t \div 60

(* --------------------------- double arithmetic ------------------------ *)

LimbBase == 2 ^ 29

F0 == [hi |-> 0, lo |-> 0]
F005 == [hi |-> 13421772, lo |-> 429496730]      \* 0.05
F01 == [hi |-> 26843545, lo |-> 322122548]       \* 0.1
F02 == [hi |-> 53687091, lo |-> 107374184]       \* 0.2
F03 == [hi |-> 80530636, lo |-> 429496728]       \* 0.3
F04 == [hi |-> 107374182, lo |-> 214748368]      \* 0.4
F06 == [hi |-> 161061273, lo |-> 322122544]      \* 0.6
F08 == [hi |-> 214748364, lo |-> 429496736]      \* 0.8
F1 == [hi |-> 2 ^ 28, lo |-> 0]                  \* 1.0

FGt(x, y) == x.hi > y.hi \/ (x.hi = y.hi /\ x.lo > y.lo)
FLt(x, y) == FGt(y, x)
FLe(x, y) == ~FGt(x, y)

\* Spacing of the doubles in the binade of a value with high limb hi.
Ulp(hi) ==
    IF hi >= 2 ^ 28 THEN 32
    ELSE IF hi >= 2 ^ 27 THEN 16
    ELSE IF hi >= 2 ^ 26 THEN 8
    ELSE IF hi >= 2 ^ 25 THEN 4
    ELSE IF hi >= 2 ^ 24 THEN 2
    ELSE 1

\* Round an exact sum to the nearest double, ties to even.
FRound(s) ==
    LET u == Ulp(s.hi)
        r == s.lo % u
        down == s.lo - r
        up == 2 * r > u \/ (2 * r = u /\ (down \div u) % 2 = 1)
        lo1 == IF up THEN down + u ELSE down
    IN  [hi |-> s.hi + lo1 \div LimbBase, lo |-> lo1 % LimbBase]

\* x + y on doubles.
FAdd(x, y) ==
    LET lo0 == x.lo + y.lo
    IN  FRound([hi |-> x.hi + y.hi + lo0 \div LimbBase, lo |-> lo0 % LimbBase])

\* Python's min(1, x) and max(0, x).
FMin1(x) == IF FLt(x, F1) THEN x ELSE F1
FMax0(x) == IF FGt(x, F0) THEN x ELSE F0

(* ------------------------------- rules -------------------------------- *)

\* get_default_rules: the thresholds the detection rules read.
get_default_rules ==
    [max_calls_per_minute |-> 100,
     max_messages_per_minute |-> 50,
     max_failed_requests_per_hour |-> 10]

\* A rules file config/ueba_rules.yaml with low thresholds.
StrictRulesFile ==
    [max_calls_per_minute |-> 1,
     max_messages_per_minute |-> 1,
     max_failed_requests_per_hour |-> 1]

\* The rules files tried: "missing" stands for a path with no file.
RulesFiles == {"missing", "strict"}

\* More rules files: one that open() may not read, one yaml cannot parse.
ConfigFiles == RulesFiles \cup {"unreadable", "unparseable"}

\* The exception open() or yaml.safe_load raises on a rules file, "" if none.
LoadError(file) ==
    IF file = "missing" THEN "FileNotFoundError"
    ELSE IF file = "unreadable" THEN "PermissionError"
    ELSE IF file = "unparseable" THEN "YAMLError"
    ELSE ""

\* The outcome of a call that raised.
Raised(exception) == [raised |-> exception]

\* load_rules: the parsed file, or the defaults when the file is not found;
\* any other exception leaves load_rules, and the constructor with it.
load_rules(file) ==
    IF LoadError(file) = "" THEN StrictRulesFile
    ELSE IF LoadError(file) = "FileNotFoundError" THEN get_default_rules
    ELSE Raised(LoadError(file))

(* ------------------------------- state -------------------------------- *)

VARIABLES
    clock,            \* the wall clock, seconds
    rules_file,       \* what lies under rules_path when the monitor is built
    rules,            \* self.rules
    learning_start,   \* self.learning_start: when the monitor was built
    agent_behaviors,  \* self.agent_behaviors: <<agent, event_type>> -> window
    anomaly_scores,   \* self.anomaly_scores: agent -> double
    alerts,           \* self.alerts
    bus,              \* every message published on the Redis bus, in order
    isolations,       \* the Redis hash ueba:isolations: agent -> record
    console,          \* the response actions announced on stdout, in order
    last,             \* the event of the latest call, the findings it gave
                      \* and the exception it raised ("" if it returned)
    delivered,        \* number of calls of monitor_agent_behavior so far
    bus_up,           \* whether a publish or hset of redis_client succeeds
    inbox,            \* messages received for the subscription, not yet taken
    loop,             \* start_monitoring: idle, running or crashed
    sent,             \* number of messages the subscription has received
    taken,            \* number of messages listen() has handed to the loop
    reply,            \* what the latest status query returned
    cancel_requested, \* whether the task of start_monitoring was cancelled
    registered_agents,      \* MasterAgent.registered_agents (the agent ids)
    master_sent,            \* the messages MasterAgent has published, in order
    workflow_logs,          \* MasterAgent.workflow_logs
    ueba_alerts,            \* MasterAgent.ueba_alerts
    workflow_status,        \* what the latest workflow run returned
    data_windows,           \* DataAnalysisAgent.data_windows: vehicle -> readings
    readings,               \* number of readings handed to update_data_window
    ueba_monitor_instance,  \* the global _ueba_monitor_instance
    monitors_built,         \* number of UEBA_Monitor objects constructed
    runs,                   \* number of workflow runs of MasterAgent so far
    run_input,              \* what the run that returned last was started with
                            \* and whom it sent to
    in_flight,              \* the runs asleep in asyncio.sleep(1)
    accessor_returns        \* what the calls of get_ueba_monitor returned

vars == <<clock, rules_file, rules, learning_start,
          agent_behaviors, anomaly_scores, alerts,
          bus, isolations, console, last, delivered, bus_up, inbox, loop,
          sent, taken, reply, cancel_requested, registered_agents,
          master_sent, workflow_logs, ueba_alerts, workflow_status,
          data_windows, readings, ueba_monitor_instance, monitors_built,
          runs, run_input, in_flight, accessor_returns>>

\* The state of the master agent, of the data-analysis agent and of the
\* accessor get_ueba_monitor, which the monitor's methods do not touch.
peerVars == <<registered_agents, master_sent, workflow_logs, ueba_alerts,
              workflow_status, data_windows, readings, ueba_monitor_instance,
              monitors_built, runs, run_input, in_flight, accessor_returns>>

\* The variables of the subscription loop.
loopVars == <<inbox, loop, sent, taken, cancel_requested>>

NoEvent == [agent_id |-> "", event_type |-> "", payload |-> EmptyPayload,
            timestamp |-> 0]

(* --------------------------- behaviour recorder ----------------------- *)

\* A dict with no keys.
EmptyMap == [k \in {} |-> 0]

\* d[k] = v on a dict.
Put(d, k, v) == [x \in DOMAIN d \cup {k} |-> IF x = k THEN v ELSE d[x]]

\* ':'.join(parts): the text whose parts between colons are these.
RECURSIVE Join(_)
Join(parts) ==
    IF Len(parts) = 1 THEN parts[1]
    ELSE parts[1] \o ":" \o Join(Tail(parts))

\* The names with a colon that callers pass as agent id or event type, each
\* as its parts; every other name of the model holds no colon.
ColonNames == {<<"P", "Q">>, <<"Q", "api_call">>}

\* name.split(':'): the parts of a name between its colons.
Segments(name) ==
    IF \E parts \in ColonNames : Join(parts) = name
    THEN CHOOSE parts \in ColonNames : Join(parts) = name
    ELSE <<name>>

\* f"{agent_id}:{event_type}": the key of a window is a text, held as its
\* parts between colons.  Two pairs that give the same text have the same
\* key.
BehaviorKey(agent_id, event_type) == Segments(agent_id) \o Segments(event_type)

\* key.startswith(prefix + ':'), both held as their parts.
StartsWith(key, prefix) ==
    Len(key) > Len(prefix) /\ SubSeq(key, 1, Len(prefix)) = prefix

\* The window a defaultdict(lambda: defaultdict(deque)) creates for a new key.
NewWindow == [timestamps |-> <<>>, minutes |-> EmptyMap]

\* Mutant of TrimFront: at most one entry is dropped.
TrimFrontOnce(timestamps, cutoff) ==
    IF timestamps # <<>> /\ Head(timestamps) < cutoff
    THEN Tail(timestamps)
    ELSE timestamps

\* while timestamps and timestamps[0] < cutoff: timestamps.popleft()
RECURSIVE TrimFront(_, _)
TrimFront(timestamps, cutoff) ==
    IF timestamps # <<>> /\ Head(timestamps) < cutoff
    THEN TrimFront(Tail(timestamps), cutoff)
    ELSE timestamps

\* record_behavior: append the timestamp to the window of agent:event_type,
\* drop the front entries older than one hour, count the event in its minute.
record_behavior(behaviors, agent_id, event_type, timestamp, now) ==
    LET behavior_key == BehaviorKey(agent_id, event_type)
        window == IF behavior_key \in DOMAIN behaviors
                  THEN behaviors[behavior_key] ELSE NewWindow
        one_hour_ago == now - 3600
        kept == TrimFront(Append(window.timestamps, timestamp), one_hour_ago)
        minute_key == MinuteKey(timestamp)
        count == IF minute_key \in DOMAIN window.minutes
                 THEN window.minutes[minute_key] ELSE 0
    IN  Put(behaviors, behavior_key,
            [timestamps |-> kept,
             minutes |-> Put(window.minutes, minute_key, count + 1)])

\* Mutant of CountAfter: the whole window is counted.
CountWholeWindow(timestamps, since) == Len(timestamps)

\* sum(1 for ts in timestamps if ts > since)
CountAfter(timestamps, since) ==
    Cardinality({i \in 1..Len(timestamps) : timestamps[i] > since})

\* get_calls_in_last_minute
get_calls_in_last_minute(behaviors, agent_id, event_type, now) ==
    LET behavior_key == BehaviorKey(agent_id, event_type)
        one_minute_ago == now - 60
    IN  IF behavior_key \notin DOMAIN behaviors THEN 0
        ELSE CountAfter(behaviors[behavior_key].timestamps, one_minute_ago)

\* get_failures_last_hour
get_failures_last_hour(behaviors, agent_id, now) ==
    LET behavior_key == BehaviorKey(agent_id, "request_failed")
        one_hour_ago == now - 3600
    IN  IF behavior_key \notin DOMAIN behaviors THEN 0
        ELSE CountAfter(behaviors[behavior_key].timestamps, one_hour_ago)

(* ------------------------------ rule engine --------------------------- *)

\* event_data.get(key, default)
Get(event_data, key, default) ==
    IF \E p \in event_data : p[1] = key
    THEN (CHOOSE p \in event_data : p[1] = key)[2]
    ELSE default

\* Mutant of FrequencyRule: the thresholds are compared with >=.
FrequencyRuleAtLeast(behaviors, policy, agent_id, event_type, now) ==
    IF event_type = "api_call"
    THEN LET calls_last_minute ==
                 get_calls_in_last_minute(behaviors, agent_id, "api_call", now)
             max_calls == policy.max_calls_per_minute
         IN  IF calls_last_minute >= max_calls
             THEN <<[type |-> "API_CALL_FREQUENCY", severity |-> "high",
                     value |-> calls_last_minute, threshold |-> max_calls]>>
             ELSE <<>>
    ELSE IF event_type = "message_sent"
    THEN LET messages_last_minute ==
                 get_calls_in_last_minute(behaviors, agent_id, "message_sent", now)
             max_messages == policy.max_messages_per_minute
         IN  IF messages_last_minute >= max_messages
             THEN <<[type |-> "MESSAGE_FREQUENCY", severity |-> "medium",
                     value |-> messages_last_minute, threshold |-> max_messages]>>
             ELSE <<>>
    ELSE <<>>

\* Rules 1 and 2 (an if / elif pair): API call and message frequency.
FrequencyRule(behaviors, policy, agent_id, event_type, now) ==
    IF event_type = "api_call"
    THEN LET calls_last_minute ==
                 get_calls_in_last_minute(behaviors, agent_id, "api_call", now)
             max_calls == policy.max_calls_per_minute
         IN  IF calls_last_minute > max_calls
             THEN <<[type |-> "API_CALL_FREQUENCY", severity |-> "high",
                     value |-> calls_last_minute, threshold |-> max_calls]>>
             ELSE <<>>
    ELSE IF event_type = "message_sent"
    THEN LET messages_last_minute ==
                 get_calls_in_last_minute(behaviors, agent_id, "message_sent", now)
             max_messages == policy.max_messages_per_minute
         IN  IF messages_last_minute > max_messages
             THEN <<[type |-> "MESSAGE_FREQUENCY", severity |-> "medium",
                     value |-> messages_last_minute, threshold |-> max_messages]>>
             ELSE <<>>
    ELSE <<>>

\* Mutant of UnusualTimeRule: "and" in place of "or".
UnusualTimeRuleAnd(timestamp) ==
    LET hour == HourOf(timestamp)
    IN  IF hour < 6 /\ hour > 22
        THEN <<[type |-> "UNUSUAL_TIME_ACCESS", severity |-> "low",
                value |-> hour, threshold |-> "06:00-22:00"]>>
        ELSE <<>>

\* Mutant of UnusualTimeRule: the hour from 06:00 to 06:59 is unusual too.
UnusualTimeRuleThroughSix(timestamp) ==
    LET hour == HourOf(timestamp)
    IN  IF hour <= 6 \/ hour > 22
        THEN <<[type |-> "UNUSUAL_TIME_ACCESS", severity |-> "low",
                value |-> hour, threshold |-> "06:00-22:00"]>>
        ELSE <<>>

\* Rule 3: activity at an unusual hour.
UnusualTimeRule(timestamp) ==
    LET hour == HourOf(timestamp)
    IN  IF hour < 6 \/ hour > 22
        THEN <<[type |-> "UNUSUAL_TIME_ACCESS", severity |-> "low",
                value |-> hour, threshold |-> "06:00-22:00"]>>
        ELSE <<>>

\* Rule 4: failed requests of the last hour.
\* Variant of the failure-rate rule that fires from the threshold itself.
FailureRuleAtLeast(behaviors, policy, agent_id, event_type, now) ==
    IF event_type = "request_failed"
    THEN LET failures_last_hour == get_failures_last_hour(behaviors, agent_id, now)
             max_failures == policy.max_failed_requests_per_hour
         IN  IF failures_last_hour >= max_failures
             THEN <<[type |-> "HIGH_FAILURE_RATE", severity |-> "high",
                     value |-> failures_last_hour, threshold |-> max_failures]>>
             ELSE <<>>
    ELSE <<>>

FailureRule(behaviors, policy, agent_id, event_type, now) ==
    IF event_type = "request_failed"
    THEN LET failures_last_hour == get_failures_last_hour(behaviors, agent_id, now)
             max_failures == policy.max_failed_requests_per_hour
         IN  IF failures_last_hour > max_failures
             THEN <<[type |-> "HIGH_FAILURE_RATE", severity |-> "high",
                     value |-> failures_last_hour, threshold |-> max_failures]>>
             ELSE <<>>
    ELSE <<>>

\* Mutant of SensitiveRule: a payload without the key counts as sensitive.
SensitiveRuleDefaultTrue(event_type, event_data) ==
    IF event_type = "data_access" /\ Get(event_data, "sensitive", TRUE)
    THEN <<[type |-> "SENSITIVE_DATA_ACCESS", severity |-> "critical",
            details |-> event_data]>>
    ELSE <<>>

\* Rule 5: access to sensitive data.
SensitiveRule(event_type, event_data) ==
    IF event_type = "data_access" /\ Get(event_data, "sensitive", FALSE)
    THEN <<[type |-> "SENSITIVE_DATA_ACCESS", severity |-> "critical",
            details |-> event_data]>>
    ELSE <<>>

\* Mutant of detect_anomalies: evaluation stops at the first rule that fires.
detect_anomalies_first_match(behaviors, policy, agent_id, event_type, event_data, timestamp, now) ==
    IF FrequencyRule(behaviors, policy, agent_id, event_type, now) # <<>>
    THEN FrequencyRule(behaviors, policy, agent_id, event_type, now)
    ELSE IF UnusualTimeRule(timestamp) # <<>>
    THEN UnusualTimeRule(timestamp)
    ELSE IF FailureRule(behaviors, policy, agent_id, event_type, now) # <<>>
    THEN FailureRule(behaviors, policy, agent_id, event_type, now)
    ELSE SensitiveRule(event_type, event_data)

\* detect_anomalies: the findings of the five rules, in rule order.
detect_anomalies(behaviors, policy, agent_id, event_type, event_data, timestamp, now) ==
    FrequencyRule(behaviors, policy, agent_id, event_type, now)
    \o UnusualTimeRule(timestamp)
    \o FailureRule(behaviors, policy, agent_id, event_type, now)
    \o SensitiveRule(event_type, event_data)

(* ----------------------------- score aggregator ----------------------- *)

\* Mutant of Increment: a critical finding weighs as much as a high one.
IncrementCriticalAsHigh(severity) ==
    IF severity = "critical" THEN F02
    ELSE IF severity = "high" THEN F02
    ELSE IF severity = "medium" THEN F01
    ELSE IF severity = "low" THEN F005
    ELSE F0

\* The increment update_anomaly_score adds for one finding.
Increment(severity) ==
    IF severity = "critical" THEN F03
    ELSE IF severity = "high" THEN F02
    ELSE IF severity = "medium" THEN F01
    ELSE IF severity = "low" THEN F005
    ELSE F0

\* Mutant of AddIncrements: only the first finding of the list counts.
AddFirstIncrement(current_score, anomalies) ==
    IF anomalies = <<>> THEN current_score
    ELSE FAdd(current_score, Increment(Head(anomalies).severity))

\* for anomaly in anomalies: current_score += increment
RECURSIVE AddIncrements(_, _)
AddIncrements(current_score, anomalies) ==
    IF anomalies = <<>> THEN current_score
    ELSE AddIncrements(FAdd(current_score, Increment(Head(anomalies).severity)),
                       Tail(anomalies))

\* Variant of the decay step that halves the score at every update.
ApplyDecayHalving(current_score) ==
    [hi |-> current_score.hi \div 2,
     lo |-> (current_score.lo + (current_score.hi % 2) * LimbBase) \div 2]

\* hours_since_update = 0; decay_factor = 0.9 ** hours_since_update;
\* current_score *= decay_factor.  0.9 ** 0 is 1.0 and x * 1.0 is x.
ApplyDecay(current_score) == current_score

\* Mutant of Clamp: the upper limit is forgotten.
ClampLowerOnly(current_score) == FMax0(current_score)

\* max(0, min(1, current_score))
Clamp(current_score) == FMax0(FMin1(current_score))

\* Reading anomaly_scores[agent_id], a defaultdict(float): 0.0 when absent.
ScoreOf(scores, agent_id) ==
    IF agent_id \in DOMAIN scores THEN scores[agent_id] ELSE F0

\* update_anomaly_score
update_anomaly_score(scores, agent_id, anomalies) ==
    Put(scores, agent_id,
        Clamp(ApplyDecay(AddIncrements(ScoreOf(scores, agent_id), anomalies))))

(* -------------------- alert manager and response dispatcher ----------- *)

\* The part of the monitor the alert path reads and writes, with the
\* exception raised so far ("" if none) and the state of the connection to
\* the Redis server: m = [scores, alerts, bus, isolations, console, raised,
\* up, fails_in].  up tells whether the connection stands; fails_in = n > 0
\* says that it fails at the n-th command sent from now on, fails_in = 0
\* that it does not fail during the call.
\* A statement reached after an exception does nothing.

\* A command of redis_client: the server takes it, which leaves the state
\* done, with one command less to go before the failure; or the connection
\* is down or fails now, and the command raises.
Command(m, done) ==
    IF m.raised # "" THEN m
    ELSE IF m.up /\ m.fails_in # 1
    THEN [done EXCEPT !.fails_in = IF @ > 1 THEN @ - 1 ELSE @]
    ELSE [m EXCEPT !.raised = "ConnectionError", !.up = FALSE, !.fails_in = 0]

\* f"agent:{agent_id}:control", as its parts between colons.
ControlChannel(agent_id) == <<"agent">> \o Segments(agent_id) \o <<"control">>
AlertsChannel == <<"ueba", "alerts">>

\* f"alert_{int(time.time())}"
AlertId(now) == <<"alert", now>>

\* notify_security_team, stop_agent_workflows, notify_admin,
\* increase_monitoring, and the first line of isolate_agent and
\* throttle_agent: a line on stdout each.
Announce(m, what, agent_id) ==
    IF m.raised # "" THEN m
    ELSE [m EXCEPT !.console = Append(@, <<what, agent_id>>)]

\* self.redis_client.publish(channel, json.dumps(msg)): raises when the
\* server cannot be reached.
Publish(m, msg) ==
    Command(m, [m EXCEPT !.bus = Append(@, msg)])

\* self.redis_client.hset('ueba:isolations', agent_id, json.dumps(log))
HSet(m, agent_id, log) ==
    Command(m, [m EXCEPT !.isolations = Put(@, agent_id, log)])

\* isolate_agent: publish the isolate command, then store the isolation log.
\* Building the log reads self.anomaly_scores[agent_id], a defaultdict: once
\* the publish has succeeded the read creates the entry 0.0 of an agent that
\* has none.
isolate_agent(m, agent_id, now) ==
    LET published == Publish(Announce(m, "isolate", agent_id),
                             [channel |-> ControlChannel(agent_id),
                              command |-> "isolate", agent_id |-> agent_id,
                              timestamp |-> now, reason |-> "UEBA security alert"])
        read == IF published.raised # "" THEN published
                ELSE [published EXCEPT
                        !.scores = Put(@, agent_id, ScoreOf(@, agent_id))]
    IN  HSet(read, agent_id,
             [agent_id |-> agent_id, action |-> "isolated", timestamp |-> now,
              ueba_score |-> ScoreOf(read.scores, agent_id)])

\* Mutant of throttle_agent: the rate limit is the per-minute maximum.
throttle_agent_wrong_limit(m, agent_id, now) ==
    Publish(Announce(m, "throttle", agent_id),
            [channel |-> ControlChannel(agent_id),
             command |-> "throttle", agent_id |-> agent_id,
             timestamp |-> now, rate_limit |-> 100])

\* throttle_agent: publish the throttle command.
throttle_agent(m, agent_id, now) ==
    Publish(Announce(m, "throttle", agent_id),
            [channel |-> ControlChannel(agent_id),
             command |-> "throttle", agent_id |-> agent_id,
             timestamp |-> now, rate_limit |-> 10])

\* Mutant of take_action: a high alert isolates the agent too.
take_action_isolating_high(m, agent_id, severity, now) ==
    IF severity = "critical"
    THEN Announce(Announce(isolate_agent(m, agent_id, now),
                           "notify_security_team", agent_id),
                  "stop_agent_workflows", agent_id)
    ELSE IF severity = "high"
    THEN Announce(isolate_agent(m, agent_id, now), "notify_admin", agent_id)
    ELSE IF severity = "medium"
    THEN Announce(m, "increase_monitoring", agent_id)
    ELSE m

\* take_action
take_action(m, agent_id, severity, now) ==
    IF severity = "critical"
    THEN Announce(Announce(isolate_agent(m, agent_id, now),
                           "notify_security_team", agent_id),
                  "stop_agent_workflows", agent_id)
    ELSE IF severity = "high"
    THEN Announce(throttle_agent(m, agent_id, now), "notify_admin", agent_id)
    ELSE IF severity = "medium"
    THEN Announce(m, "increase_monitoring", agent_id)
    ELSE m

\* The alert generate_alert builds.
NewAlert(agent_id, anomaly, now) ==
    [alert_id |-> AlertId(now), timestamp |-> now, agent_id |-> agent_id,
     anomaly_type |-> anomaly.type, severity |-> anomaly.severity,
     details |-> anomaly, status |-> "new"]

\* publish_alert
publish_alert(m, alert) ==
    Publish(m, [channel |-> AlertsChannel, alert |-> alert])

\* Mutant of generate_alert: the alert replaces the log's last alert.
generate_alert_overwriting(m, agent_id, anomaly, now) ==
    LET alert == NewAlert(agent_id, anomaly, now)
        stored == IF m.alerts = <<>> THEN <<alert>>
                  ELSE [m.alerts EXCEPT ![Len(m.alerts)] = alert]
        appended == [m EXCEPT !.alerts = stored]
    IN  take_action(publish_alert(appended, alert), agent_id, anomaly.severity, now)

\* generate_alert: append the alert, publish it, respond to its severity.
generate_alert(m, agent_id, anomaly, now) ==
    LET alert == NewAlert(agent_id, anomaly, now)
        appended == [m EXCEPT !.alerts = Append(@, alert)]
    IN  take_action(publish_alert(appended, alert), agent_id, anomaly.severity, now)

\* Mutant of IsSignificant: only critical findings are promoted.
IsSignificantCriticalOnly(anomaly) == anomaly.severity = "critical"

\* Whether a finding is promoted to an alert.
IsSignificant(anomaly) == anomaly.severity \in {"critical", "high"}

\* for anomaly in anomalies: if severity in ['critical', 'high']: generate_alert
RECURSIVE GenerateAlerts(_, _, _, _)
GenerateAlerts(m, agent_id, anomalies, now) ==
    IF anomalies = <<>> \/ m.raised # "" THEN m
    ELSE LET anomaly == Head(anomalies)
             m1 == IF IsSignificant(anomaly)
                   THEN generate_alert(m, agent_id, anomaly, now) ELSE m
         IN  GenerateAlerts(m1, agent_id, Tail(anomalies), now)

\* Mutant of TooHigh: a score of 0.8 is too high as well.
TooHighFromThreshold(score) == ~FLt(score, F08)

\* score > 0.8
TooHigh(score) == FGt(score, F08)

\* if self.anomaly_scores[agent_id] > 0.8: isolate_agent.  The read creates
\* the agent's entry in the defaultdict.
ScoreGate(m, agent_id, now) ==
    LET m1 == [m EXCEPT !.scores = Put(@, agent_id, ScoreOf(m.scores, agent_id))]
    IN  IF m.raised # "" THEN m
        ELSE IF TooHigh(m1.scores[agent_id]) THEN isolate_agent(m1, agent_id, now)
        ELSE m1

(* ------------------------------- actions ------------------------------ *)

\* No status query has returned yet.
NoReply == [query |-> "", agent_id |-> "", result |-> <<>>]

\* UEBA_Monitor(rules_path) with one of the given files under rules_path,
\* built at one of the given times.
InitAt(files, times) ==
    /\ clock \in times
    /\ rules_file \in files
    /\ rules = load_rules(rules_file)
    /\ learning_start = clock
    /\ agent_behaviors = EmptyMap
    /\ anomaly_scores = EmptyMap
    /\ alerts = <<>>
    /\ bus = <<>>
    /\ isolations = EmptyMap
    /\ console = <<>>
    /\ last = [event |-> NoEvent, anomalies |-> <<>>, raised |-> ""]
    /\ delivered = 0
    /\ bus_up = TRUE
    /\ inbox = <<>>
    /\ loop = [state |-> "idle", error |-> ""]
    /\ sent = 0
    /\ taken = 0
    /\ reply = NoReply
    /\ cancel_requested = FALSE
    /\ registered_agents = {}
    /\ master_sent = <<>>
    /\ workflow_logs = <<>>
    /\ ueba_alerts = <<>>
    /\ workflow_status = [status |-> ""]
    /\ data_windows = EmptyMap
    /\ readings = 0
    /\ ueba_monitor_instance = [id |-> 0]
    /\ monitors_built = 0
    /\ runs = 0
    /\ run_input = [vehicle_data |-> [vehicle_id |-> ""], fails_at |-> 0,
                    recipients |-> <<>>]
    /\ in_flight = <<>>
    /\ accessor_returns = <<>>

\* The monitor built at 21:59:00.
InitWith(files) == InitAt(files, {StartTime})

Init == InitWith(RulesFiles)

\* monitor_agent_behavior, the whole call, on a connection that fails at
\* the command numbered fails_in of the call (0: at none).
HandleFailing(agent_id, event_type, event_data, fails_in) ==
    LET timestamp == clock
        behaviors == record_behavior(agent_behaviors, agent_id, event_type,
                                     timestamp, clock)
        anomalies == detect_anomalies(behaviors, rules, agent_id, event_type,
                                      event_data, timestamp, clock)
        m0 == [scores |-> anomaly_scores, alerts |-> alerts, bus |-> bus,
               isolations |-> isolations, console |-> console,
               raised |-> "", up |-> bus_up, fails_in |-> fails_in]
        m1 == IF anomalies # <<>>
              THEN GenerateAlerts(
                       [m0 EXCEPT !.scores =
                            update_anomaly_score(@, agent_id, anomalies)],
                       agent_id, anomalies, clock)
              ELSE m0
        m2 == ScoreGate(m1, agent_id, clock)
    IN  /\ agent_behaviors' = behaviors
        /\ anomaly_scores' = m2.scores
        /\ alerts' = m2.alerts
        /\ bus' = m2.bus
        /\ isolations' = m2.isolations
        /\ console' = m2.console
        /\ last' = [event |-> [agent_id |-> agent_id, event_type |-> event_type,
                               payload |-> event_data, timestamp |-> timestamp],
                    anomalies |-> anomalies, raised |-> m2.raised]
        /\ bus_up' = m2.up

\* monitor_agent_behavior, the whole call, on a connection that does not
\* fail during the call.
Handle(agent_id, event_type, event_data) ==
    HandleFailing(agent_id, event_type, event_data, 0)

\* What a call leaves alone when no subscription is open.
callFrame == <<clock, rules_file, rules, learning_start, peerVars, loopVars,
               reply>>

\* A caller awaits monitor_agent_behavior; no subscription is open.
MonitorAgentBehavior(agent_id, event_type, event_data) ==
    /\ delivered < MaxEvents
    /\ loop.state = "idle"
    /\ Handle(agent_id, event_type, event_data)
    /\ delivered' = delivered + 1
    /\ UNCHANGED callFrame

\* The same call on a connection that may fail between two commands.
MonitorAgentBehaviorFailing(agent_id, event_type, event_data, fails_in) ==
    /\ delivered < MaxEvents
    /\ loop.state = "idle"
    /\ HandleFailing(agent_id, event_type, event_data, fails_in)
    /\ delivered' = delivered + 1
    /\ UNCHANGED callFrame

\* The wall clock moves on to a later instant.
Tick(t) ==
    /\ t > clock
    /\ clock' = t
    /\ UNCHANGED <<rules_file, rules, learning_start,
                   peerVars, agent_behaviors, anomaly_scores, alerts,
                   bus, isolations, console, last, delivered, bus_up, loopVars, reply>>

Next ==
    \/ \E agent_id \in Agents, event_type \in EventTypes :
         \E event_data \in PayloadsOf(event_type) :
           MonitorAgentBehavior(agent_id, event_type, event_data)
    \/ \E t \in TimePoints : Tick(t)

Spec == Init /\ [][Next]_vars

(* ------------------------ the subscription loop ----------------------- *)

\* json.dumps(value): a text that json.loads turns back into the value.
json_dumps(value) == [json |-> TRUE, text |-> value]

\* A message body that is not JSON.
NotJson == [json |-> FALSE, text |-> "not json"]

\* What an agent publishes on its channel.
Bodies == {json_dumps([kind |-> "hello"]), NotJson}

\* The channel of an agent's own messages.
AgentChannel(agent_id) == <<"agent">> \o Segments(agent_id)

\* psubscribe('agent:*'): the glob matches every channel name that starts
\* with "agent:", whatever follows, further colons included.
MatchesPattern(channel) == Len(channel) >= 2 /\ channel[1] = "agent"

\* The dict a published message carries: all of it but the channel.
CommandOf(msg) == [field \in DOMAIN msg \ {"channel"} |-> msg[field]]

\* The pmessages the subscription receives for the messages published,
\* numbered from n + 1 in the order of publication.
Deliveries(published, n) ==
    LET matching == SelectSeq(published, LAMBDA msg : MatchesPattern(msg.channel))
    IN  [i \in 1..Len(matching) |->
           [type |-> "pmessage", channel |-> matching[i].channel,
            data |-> json_dumps(CommandOf(matching[i])), seq |-> n + i]]

\* Mutant of NextMessage: the newest message is handed out first.
NewestMessage(queue) == queue[Len(queue)]

\* for message in self.pubsub.listen(): the oldest message not yet taken.
NextMessage(queue) == Head(queue)

\* The loop leaves with an exception.
Crashed(exception) == [state |-> "crashed", error |-> exception]

\* start_monitoring up to the first listen(): the subscription is open and
\* holds its confirmation.
StartMonitoring ==
    /\ loop.state = "idle"
    /\ loop' = [state |-> "running", error |-> ""]
    /\ inbox' = <<[type |-> "psubscribe", channel |-> <<>>,
                   data |-> json_dumps(1), seq |-> sent + 1]>>
    /\ sent' = sent + 1
    /\ UNCHANGED <<clock, rules_file, rules, learning_start,
                   peerVars, agent_behaviors, anomaly_scores,
                   alerts, bus, isolations, console, last, delivered, bus_up,
                   taken, reply, cancel_requested>>

\* An agent publishes on its channel while the subscription is open.
AgentPublish(agent_id, body) ==
    /\ loop.state = "running"
    /\ Len(inbox) < MaxInbox
    /\ inbox' = Append(inbox, [type |-> "pmessage",
                               channel |-> AgentChannel(agent_id),
                               data |-> body, seq |-> sent + 1])
    /\ sent' = sent + 1
    /\ UNCHANGED <<clock, rules_file, rules, learning_start,
                   peerVars, agent_behaviors, anomaly_scores,
                   alerts, bus, isolations, console, last, delivered, bus_up,
                   loop, taken, reply, cancel_requested>>

\* Variant of the loop in which the event type is the api_call type.
LoopEventTypeApiCall == "api_call"

\* event_type='message_sent': the type the loop gives every event it hands on.
LoopEventType == "message_sent"

\* Where the connection may fail during an event of the loop: nowhere (0),
\* at the publish of the isolate command or at the hset that follows it, the
\* two commands such an event can send.
LoopFailurePoints == 0..2

\* One pass of the for loop of start_monitoring.
LoopStep ==
    /\ loop.state = "running"
    /\ inbox # <<>>
    /\ LET message == NextMessage(inbox)
           channel == message.channel
       IN  /\ taken' = message.seq
           /\ IF message.type # "pmessage"
              THEN /\ inbox' = Tail(inbox)
                   /\ UNCHANGED <<agent_behaviors, anomaly_scores, alerts, bus,
                                  isolations, console, last, delivered, loop, sent,
                                  bus_up>>
              ELSE IF ~message.data.json
              THEN \* json.loads raises; nothing in the loop catches it
                   /\ loop' = Crashed("JSONDecodeError")
                   /\ inbox' = Tail(inbox)
                   /\ UNCHANGED <<agent_behaviors, anomaly_scores, alerts, bus,
                                  isolations, console, last, delivered, sent,
                                  bus_up>>
              ELSE IF channel[1] = "agent" /\ Len(channel) >= 2
              THEN /\ delivered < MaxEvents + MaxLoopEvents
                   /\ \E fails_in \in LoopFailurePoints :
                        HandleFailing(channel[2], LoopEventType,
                                      {<<"channel", channel>>,
                                       <<"data", message.data.text>>},
                                      fails_in)
                   /\ delivered' = delivered + 1
                   /\ loop' = IF last'.raised = "" THEN loop
                              ELSE Crashed(last'.raised)
                   /\ LET received ==
                             Deliveries(SubSeq(bus', Len(bus) + 1, Len(bus')), sent)
                      IN  /\ inbox' = Tail(inbox) \o received
                          /\ sent' = sent + Len(received)
              ELSE /\ inbox' = Tail(inbox)
                   /\ UNCHANGED <<agent_behaviors, anomaly_scores, alerts, bus,
                                  isolations, console, last, delivered, loop, sent,
                                  bus_up>>
    /\ UNCHANGED <<clock, rules_file, rules, learning_start, peerVars, reply,
                   cancel_requested>>

\* The connection redis_client publishes on fails between two events.
BusFails ==
    /\ bus_up
    /\ bus_up' = FALSE
    /\ UNCHANGED <<clock, rules_file, rules, learning_start,
                   peerVars, agent_behaviors, anomaly_scores,
                   alerts, bus, isolations, console, last, delivered, loopVars,
                   reply>>

\* Where the connection may fail during a call for sensitive data: nowhere
\* (0), or at one of its commands, which are at most the publish of the
\* alert, the publish and hset of the response and those of the score gate.
WarmUpFailurePoints == 0..5

\* Before the loop starts, an agent reads sensitive data.
WarmUp(agent_id, fails_in) ==
    MonitorAgentBehaviorFailing(agent_id, "data_access", SensitivePayload, fails_in)

LoopTimePoints == {Hms(22, 0, 0)}

NextLoop ==
    \/ \E fails_in \in WarmUpFailurePoints : WarmUp("X", fails_in)
    \/ StartMonitoring
    \/ \E agent_id \in Agents, body \in Bodies : AgentPublish(agent_id, body)
    \/ LoopStep
    \/ BusFails
    \/ \E t \in LoopTimePoints : Tick(t)

SpecLoop == Init /\ [][NextLoop]_vars

(* ----------------------- the score-gate scenario --------------------- *)

\* The monitor runs on the strict rules file.
InitGate == InitWith({"strict"})

\* Agent X calls the API and reads data, sensitive or not; agent Y reads
\* data that is not sensitive.
GateEvents ==
    {<<"X", "api_call", EmptyPayload>>, <<"X", "data_access", SensitivePayload>>,
     <<"X", "data_access", EmptyPayload>>, <<"Y", "data_access", EmptyPayload>>}

GateCall(event) ==
    /\ delivered < MaxGateEvents
    /\ Handle(event[1], event[2], event[3])
    /\ delivered' = delivered + 1
    /\ UNCHANGED callFrame

GateTimePoints == {Hms(23, 0, 0)}

NextGate ==
    \/ \E event \in GateEvents : GateCall(event)
    \/ \E t \in GateTimePoints : Tick(t)

SpecGate == InitGate /\ [][NextGate]_vars

(* -------------------------- the hours scenario ------------------------ *)

\* The first and the last second of each hour of the day.
HourTimes == {Hms(h, 0, 0) : h \in 0..23} \cup {Hms(h, 59, 59) : h \in 0..23}

\* The monitor is built at any of these times.
InitHours == InitAt(RulesFiles, HourTimes)

\* An event of any type arrives.
HourCall(agent_id, event_type, event_data) ==
    /\ delivered < MaxHourEvents
    /\ Handle(agent_id, event_type, event_data)
    /\ delivered' = delivered + 1
    /\ UNCHANGED callFrame

NextHours ==
    \E agent_id \in Agents, event_type \in EventTypes :
      \E event_data \in PayloadsOf(event_type) :
        HourCall(agent_id, event_type, event_data)

SpecHours == InitHours /\ [][NextHours]_vars

(* ------------------------------ shutdown ------------------------------ *)

\* The owner of the task running start_monitoring cancels it.  asyncio
\* delivers a cancellation where the coroutine suspends; start_monitoring
\* blocks in the synchronous generator listen() and awaits only coroutines
\* that never suspend, and it reads no stop flag, so no step of the loop
\* looks at the request.
Cancel ==
    /\ loop.state = "running"
    /\ ~cancel_requested
    /\ cancel_requested' = TRUE
    /\ UNCHANGED <<clock, rules_file, rules, learning_start,
                   peerVars, agent_behaviors, anomaly_scores,
                   alerts, bus, isolations, console, last, delivered, bus_up,
                   inbox, loop, sent, taken, reply>>

NextShutdown ==
    \/ StartMonitoring
    \/ \E agent_id \in Agents, body \in Bodies : AgentPublish(agent_id, body)
    \/ LoopStep
    \/ Cancel

\* LoopStep can be taken: the loop runs, a message waits, and an event it
\* carries is within the bound on handled events.
LoopCanStep ==
    /\ loop.state = "running"
    /\ inbox # <<>>
    /\ (NextMessage(inbox).type = "pmessage" /\ NextMessage(inbox).data.json)
         => delivered < MaxEvents + MaxLoopEvents

\* LoopStep as far as the count of taken messages shows it: every LoopStep
\* takes the next message, and no other step does.
Takes == LoopCanStep /\ taken' = taken + 1

\* The loop goes on while a message waits (listen() hands it out and the
\* body of the for loop runs to its end); the agents may fall silent.
SpecShutdown == Init /\ [][NextShutdown]_vars /\ WF_taken(Takes)

(* ------------------------ loading the rules file ---------------------- *)

\* UEBA_Monitor(rules_path) returned a monitor: load_rules did not raise.
Constructed == "raised" \notin DOMAIN rules

\* The constructor is tried on every kind of rules file.
InitConfig == InitWith(ConfigFiles)

\* Events reach the monitor only if there is one.
NextConfig == Constructed /\ Next

SpecConfig == InitConfig /\ [][NextConfig]_vars

(* --------------------------- status queries --------------------------- *)

\* Mutant of ScoresGet: the score is read by indexing the defaultdict,
\* which stores 0.0 under a key it does not have.
ScoresIndex(scores, agent_id) ==
    [value |-> ScoreOf(scores, agent_id),
     scores |-> Put(scores, agent_id, ScoreOf(scores, agent_id))]

\* self.anomaly_scores.get(agent_id, 0): the value read and the dict after.
ScoresGet(scores, agent_id) ==
    [value |-> ScoreOf(scores, agent_id), scores |-> scores]

\* max(timestamps)
MaxOf(timestamps) ==
    CHOOSE t \in {timestamps[i] : i \in 1..Len(timestamps)} :
        \A i \in 1..Len(timestamps) : timestamps[i] <= t

\* behavior_key.split(':', 1)[1]: the text after the first colon of a key.
AfterFirstColon(behavior_key) == Join(Tail(behavior_key))

\* get_behavior_summary: for each window that is not empty and whose key
\* starts with f"{agent_id}:", the length of the window and its latest
\* timestamp, under the text after the first colon of the key.
get_behavior_summary(behaviors, agent_id) ==
    LET keys == {behavior_key \in DOMAIN behaviors :
                   /\ StartsWith(behavior_key, Segments(agent_id))
                   /\ behaviors[behavior_key].timestamps # <<>>}
    IN  [event_type \in {AfterFirstColon(behavior_key) : behavior_key \in keys} |->
           LET behavior_key == CHOOSE key \in keys : AfterFirstColon(key) = event_type
               timestamps == behaviors[behavior_key].timestamps
           IN  [count_last_hour |-> Len(timestamps),
                last_activity |-> MaxOf(timestamps)]]

\* next((a for a in reversed(self.alerts) if a['agent_id'] == agent_id), None)
LastAlert(log, agent_id) ==
    LET mine == {i \in 1..Len(log) : log[i].agent_id = agent_id}
    IN  IF mine = {} THEN <<>>
        ELSE <<log[CHOOSE i \in mine : \A j \in mine : j <= i]>>

\* get_agent_status: the status record, and the score map after the reads.
get_agent_status(behaviors, scores, log, agent_id) ==
    LET first == ScoresGet(scores, agent_id)
        second == ScoresGet(first.scores, agent_id)
    IN  [result |->
           [agent_id |-> agent_id,
            anomaly_score |-> first.value,
            status |-> IF FGt(second.value, F08) THEN "isolated" ELSE "monitored",
            last_alert |-> LastAlert(log, agent_id),
            behavior_summary |-> get_behavior_summary(behaviors, agent_id)],
         scores |-> second.scores]

\* calculate_learning_progress: learning_mode is True and neither rules
\* dict has baseline_learning, so the period is 7 days; the days are the
\* whole days since the monitor was built; the percentage
\* min(100.0, days_elapsed / 7 * 100) as the fraction <<numerator, 7>>.
calculate_learning_progress(now, built_at) ==
    LET days_elapsed == (now - built_at) \div 86400
    IN  IF days_elapsed >= 7 THEN <<700, 7>> ELSE <<days_elapsed * 100, 7>>

\* len([s for s in self.anomaly_scores.values() if low < s <= high])
CountScores(scores, low, high) ==
    Cardinality({a \in DOMAIN scores :
                   FLt(low, scores[a]) /\ FLe(scores[a], high)})

\* len([s for s in self.anomaly_scores.values() if s > 0.8])
CountCritical(scores) ==
    Cardinality({a \in DOMAIN scores : FGt(scores[a], F08)})

\* len([s for s in self.anomaly_scores.values() if s <= 0.2])
CountNormal(scores) ==
    Cardinality({a \in DOMAIN scores : FLe(scores[a], F02)})

\* get_dashboard_data
get_dashboard_data(scores, log, now, built_at) ==
    [total_agents_monitored |-> Cardinality(DOMAIN scores),
     active_alerts |-> Cardinality({i \in 1..Len(log) : log[i].status = "new"}),
     anomaly_distribution |->
       [critical |-> CountCritical(scores),
        high |-> CountScores(scores, F06, F08),
        medium |-> CountScores(scores, F04, F06),
        low |-> CountScores(scores, F02, F04),
        normal |-> CountNormal(scores)],
     recent_alerts |-> IF Len(log) > 10 THEN SubSeq(log, Len(log) - 9, Len(log))
                       ELSE log,
     learning_mode |-> TRUE,
     learning_progress |-> calculate_learning_progress(now, built_at)]

\* The agents asked about: the two that send events and one that never does.
QueriedAgents == Agents \cup {"Z"}

\* A dashboard calls get_agent_status(agent_id).
GetAgentStatus(agent_id) ==
    LET status == get_agent_status(agent_behaviors, anomaly_scores, alerts, agent_id)
    IN  /\ reply' = [query |-> "get_agent_status", agent_id |-> agent_id,
                     result |-> status.result]
        /\ anomaly_scores' = status.scores
        /\ UNCHANGED <<clock, rules_file, rules, learning_start,
                       peerVars, agent_behaviors, alerts, bus,
                       isolations, console, last, delivered, bus_up, loopVars>>

\* A dashboard calls get_dashboard_data().
GetDashboardData ==
    /\ reply' = [query |-> "get_dashboard_data", agent_id |-> "",
                 result |-> get_dashboard_data(anomaly_scores, alerts, clock,
                                               learning_start)]
    /\ UNCHANGED <<clock, rules_file, rules, learning_start,
                   peerVars, agent_behaviors, anomaly_scores,
                   alerts, bus, isolations, console, last, delivered, bus_up,
                   loopVars>>

\* The events sent while the dashboard is asking.
StatusEvent(agent_id, event_data) ==
    MonitorAgentBehavior(agent_id, "data_access", event_data)

StatusTimePoints == {Hms(23, 0, 0)}

NextStatus ==
    \/ \E agent_id \in Agents : \E event_data \in {SensitivePayload, EmptyPayload} :
         StatusEvent(agent_id, event_data)
    \/ \E t \in StatusTimePoints : Tick(t)
    \/ \E agent_id \in QueriedAgents : GetAgentStatus(agent_id)
    \/ GetDashboardData

SpecStatus == Init /\ [][NextStatus]_vars

(* ------------------------- the burst scenario ------------------------- *)

\* The instants of the burst: its start, 59 s later and 60 s later.
BurstTimePoints == {StartTime, StartTime + 59, StartTime + 60}

\* A monitor built without a rules file.
InitBurst == InitWith({"missing"})

\* One more api_call of agent X.
BurstCall ==
    /\ delivered < MaxBurst
    /\ Handle("X", "api_call", EmptyPayload)
    /\ delivered' = delivered + 1
    /\ UNCHANGED callFrame

BurstTick(t) == Tick(t)

NextBurst ==
    \/ BurstCall
    \/ \E t \in BurstTimePoints : BurstTick(t)

SpecBurst == InitBurst /\ [][NextBurst]_vars

(* --------------------------- observations ----------------------------- *)

\* The step is a call of monitor_agent_behavior.
IsCall == delivered' = delivered + 1

\* The step is a call for this agent.
IsCallFor(agent_id) == IsCall /\ last'.event.agent_id = agent_id

IsCommand(msg, agent_id, command) ==
    msg.channel = ControlChannel(agent_id) /\ msg.command = command

\* Number of control commands of a kind the step publishes for an agent.
Published(agent_id, command) ==
    Cardinality({i \in (Len(bus) + 1)..Len(bus') :
                   IsCommand(bus'[i], agent_id, command)})

\* Number of control commands of any kind the step publishes.
ControlPublished ==
    Cardinality({i \in (Len(bus) + 1)..Len(bus') :
                   bus'[i].channel # AlertsChannel})

\* The alerts the step appends.
NewAlerts == SubSeq(alerts', Len(alerts) + 1, Len(alerts'))

\* Number of findings of a type, and of a severity, in a list.
CountType(anomalies, type) ==
    Cardinality({i \in 1..Len(anomalies) : anomalies[i].type = type})
CountSeverity(anomalies, severity) ==
    Cardinality({i \in 1..Len(anomalies) : anomalies[i].severity = severity})

IsUnusualHour(t) == HourOf(t) < 6 \/ HourOf(t) > 22

(* ------------------------------- claims ------------------------------- *)

\* C1: every stored anomaly score lies in the closed range [0, 1].
C1_ScoreInUnitRange ==
    \A a \in DOMAIN anomaly_scores :
        FLe(F0, anomaly_scores[a]) /\ FLe(anomaly_scores[a], F1)

\* C1 witness: three critical alerts of one agent, each raised in an unusual
\* hour (0.35 a time), so that the clamp has cut 1.05 down to 1.
C1_Witness ==
    \E a \in DOMAIN anomaly_scores :
        /\ anomaly_scores[a] = F1
        /\ Len(alerts) = 3
        /\ \A i \in 1..3 : /\ alerts[i].agent_id = a
                           /\ alerts[i].severity = "critical"
                           /\ IsUnusualHour(alerts[i].timestamp)

\* C2 (as claimed): a call that moves an agent's score from <= 0.8 to > 0.8
\* publishes exactly one isolate command for that agent.
C2_OneIsolateOnCrossing ==
    [][\A a \in Agents :
         (/\ IsCallFor(a)
          /\ FLe(ScoreOf(anomaly_scores, a), F08)
          /\ FGt(ScoreOf(anomaly_scores', a), F08))
         => Published(a, "isolate") = 1]_vars

\* C3 (as claimed): every isolation was published at a score above 0.8; the
\* isolation log holds the score read when the command was published.
C3_IsolatedOnlyAboveThreshold ==
    \A a \in DOMAIN isolations : FGt(isolations[a].ueba_score, F08)

\* C3 (amended): a call publishes an isolate command for an agent only if the
\* agent's score is above 0.8 at that moment or the call raised a critical
\* alert for that agent.
C3_IsolateFromGateOrCritical ==
    [][\A a \in Agents :
         Published(a, "isolate") > 0
         => \/ FGt(ScoreOf(anomaly_scores', a), F08)
            \/ \E i \in 1..Len(NewAlerts) :
                 /\ NewAlerts[i].agent_id = a
                 /\ NewAlerts[i].severity = "critical"]_vars

\* C3 witness: an isolation published at a score above 0.8.
C3_Witness ==
    \E a \in DOMAIN isolations :
        /\ FGt(isolations[a].ueba_score, F08)
        /\ \E i \in 1..Len(bus) : IsCommand(bus[i], a, "isolate")

\* C4 (as claimed): when time passes, the score of an agent with a positive
\* score and no new finding gets strictly lower.
C4_ScoreDecaysOverTime ==
    [][\A a \in Agents :
         (/\ clock' > clock
          /\ alerts' = alerts
          /\ FGt(ScoreOf(anomaly_scores, a), F0))
         => FLt(ScoreOf(anomaly_scores', a), ScoreOf(anomaly_scores, a))]_vars

\* C5 (as claimed): no two alerts of the log have the same id.
C5_AlertIdsUnique ==
    \A i, j \in 1..Len(alerts) :
        i # j => alerts[i].alert_id # alerts[j].alert_id

\* The entries of a window that are not older than one hour.
NotStale(timestamps) ==
    SelectSeq(timestamps, LAMBDA ts : ts >= clock - 3600)

\* C6: the per-minute and per-hour count queries count no timestamp older
\* than now - 3600 s: dropping those timestamps from every window changes
\* no answer.
C6_QueriesIgnoreStale ==
    LET fresh == [k \in DOMAIN agent_behaviors |->
                    [agent_behaviors[k] EXCEPT !.timestamps = NotStale(@)]]
    IN  \A a \in Agents :
          /\ \A et \in EventTypes :
               get_calls_in_last_minute(agent_behaviors, a, et, clock)
                 = get_calls_in_last_minute(fresh, a, et, clock)
          /\ get_failures_last_hour(agent_behaviors, a, clock)
               = get_failures_last_hour(fresh, a, clock)

\* C6 witness: a failure window still holds a timestamp older than one hour,
\* and the hourly query does not count it.
C6_Witness ==
    \E a \in Agents :
        /\ <<a, "request_failed">> \in DOMAIN agent_behaviors
        /\ \E i \in 1..Len(agent_behaviors[<<a, "request_failed">>].timestamps) :
             agent_behaviors[<<a, "request_failed">>].timestamps[i] < clock - 3600
        /\ get_failures_last_hour(agent_behaviors, a, clock) = 0

\* The api_call window of the burst agent.
BurstWindow ==
    IF <<"X", "api_call">> \in DOMAIN agent_behaviors
    THEN agent_behaviors[<<"X", "api_call">>].timestamps ELSE <<>>

\* All calls of the burst so far lie within one 60-second span.
BurstWithinSpan ==
    /\ Len(BurstWindow) = delivered
    /\ delivered >= 1
    /\ BurstWindow[Len(BurstWindow)] - BurstWindow[1] < 60

\* C7: under the default policy, of the api_call events one agent generates
\* within a 60-second span the first 100 yield no API_CALL_FREQUENCY finding
\* and the 101st yields exactly one, high, with value 101 and threshold 100.
C7_BurstTriggersAt101 ==
    BurstWithinSpan =>
      /\ delivered <= 100 => CountType(last.anomalies, "API_CALL_FREQUENCY") = 0
      /\ delivered = 101 =>
           /\ CountType(last.anomalies, "API_CALL_FREQUENCY") = 1
           /\ \A i \in 1..Len(last.anomalies) :
                last.anomalies[i].type = "API_CALL_FREQUENCY" =>
                  /\ last.anomalies[i].severity = "high"
                  /\ last.anomalies[i].value = 101
                  /\ last.anomalies[i].threshold = 100

\* C7 witness: the 101st call of a burst that began 59 s earlier.
C7_Witness ==
    /\ BurstWithinSpan
    /\ delivered = 101
    /\ BurstWindow[1] = StartTime
    /\ last.event.timestamp = StartTime + 59
    /\ CountType(last.anomalies, "API_CALL_FREQUENCY") = 1

\* The step handles a data_access event whose payload has sensitive = true.
IsSensitiveCall(a) ==
    /\ IsCallFor(a)
    /\ last'.event.event_type = "data_access"
    /\ Get(last'.event.payload, "sensitive", FALSE)

\* What every sensitive data_access call does: one critical finding, one new
\* alert in status new, an isolation record under the agent's key.
SensitiveCallBasics(a) ==
    /\ CountSeverity(last'.anomalies, "critical") = 1
    /\ CountType(last'.anomalies, "SENSITIVE_DATA_ACCESS") = 1
    /\ Len(NewAlerts) = 1
    /\ NewAlerts[1].status = "new"
    /\ NewAlerts[1].agent_id = a
    /\ NewAlerts[1].anomaly_type = "SENSITIVE_DATA_ACCESS"
    /\ SubSeq(alerts', 1, Len(alerts)) = alerts
    /\ a \in DOMAIN isolations'
    /\ isolations'[a].agent_id = a
    /\ isolations'[a].timestamp = clock
    /\ \A b \in DOMAIN isolations' \ {a} :
         b \in DOMAIN isolations /\ isolations'[b] = isolations[b]

\* C8 (as claimed): a sensitive data_access call of agent X gives one critical
\* finding, raises the score by 0.30, appends one new alert, publishes exactly
\* one isolate command and writes one isolation record under X.
C8_SensitiveAccessAsClaimed ==
    [][\A a \in Agents :
         IsSensitiveCall(a) =>
           /\ SensitiveCallBasics(a)
           /\ anomaly_scores'[a] = FAdd(ScoreOf(anomaly_scores, a), F03)
           /\ Published(a, "isolate") = 1]_vars

\* C8 (amended): the score rises by 0.30, or by 0.05 and then 0.30 in an
\* unusual hour, and is clamped to 1; one isolate command answers the alert
\* and the score gate publishes a second one when the new score is above 0.8.
C8_SensitiveAccess ==
    [][\A a \in Agents :
         IsSensitiveCall(a) =>
           LET before == ScoreOf(anomaly_scores, a)
               withLow == IF IsUnusualHour(clock) THEN FAdd(before, F005)
                          ELSE before
               raised == FAdd(withLow, F03)
               expected == IF FGt(raised, F1) THEN F1 ELSE raised
           IN  /\ SensitiveCallBasics(a)
               /\ anomaly_scores'[a] = expected
               /\ isolations'[a].ueba_score = expected
               /\ Published(a, "isolate")
                    = (IF FGt(expected, F08) THEN 2 ELSE 1)
               /\ Published(a, "throttle") = 0]_vars

\* C8 witness: the first event of an agent is a sensitive data_access in a
\* usual hour: score 0.3, one alert, one isolate command, one record.
C8_Witness ==
    \E a \in Agents :
        /\ last.event.agent_id = a
        /\ last.event.event_type = "data_access"
        /\ Get(last.event.payload, "sensitive", FALSE)
        /\ ~IsUnusualHour(last.event.timestamp)
        /\ a \in DOMAIN anomaly_scores /\ anomaly_scores[a] = F03
        /\ Cardinality({i \in 1..Len(alerts) : alerts[i].agent_id = a}) = 1
        /\ Cardinality({i \in 1..Len(bus) : IsCommand(bus[i], a, "isolate")}) = 1
        /\ a \in DOMAIN isolations /\ isolations[a].ueba_score = F03

\* The agent has not been seen: no window and no score entry is its own.
Unseen(a) ==
    /\ a \notin DOMAIN anomaly_scores
    /\ \A k \in DOMAIN agent_behaviors : k[1] # a

\* C9: a single message_sent event of an unseen agent at 03:00, under a
\* policy that allows at least one message per minute, yields exactly one
\* finding (low, UNUSUAL_TIME_ACCESS), makes the score 0.05, leaves the alert
\* log unchanged and publishes no control command.
C9_UnseenAgentAtThree ==
    [][\A a \in Agents :
         (/\ IsCallFor(a)
          /\ Unseen(a)
          /\ last'.event.event_type = "message_sent"
          /\ HourOf(clock) = 3
          /\ rules.max_messages_per_minute >= 1)
         => /\ Len(last'.anomalies) = 1
            /\ last'.anomalies[1].type = "UNUSUAL_TIME_ACCESS"
            /\ last'.anomalies[1].severity = "low"
            /\ last'.anomalies[1].value = 3
            /\ anomaly_scores'[a] = F005
            /\ alerts' = alerts
            /\ ControlPublished = 0
            /\ bus' = bus]_vars

\* C9 witness: the first event of the run is a message_sent at 03:00.
C9_Witness ==
    /\ delivered = 1
    /\ last.event.event_type = "message_sent"
    /\ HourOf(last.event.timestamp) = 3
    /\ anomaly_scores[last.event.agent_id] = F005
    /\ alerts = <<>>
    /\ bus = <<>>

\* The high and critical findings of a list, in order.
HighOrCritical(anomalies) ==
    SelectSeq(anomalies, LAMBDA f : f.severity \in {"high", "critical"})

\* C10: a call appends one alert in status new for each high or critical
\* finding, in order, and none for a medium or low finding; a medium or low
\* finding still raises the score (unless it already is 1).
C10_AlertIffHighOrCritical ==
    [][\A a \in Agents :
         IsCallFor(a) =>
           LET significant == HighOrCritical(last'.anomalies)
           IN  /\ SubSeq(alerts', 1, Len(alerts)) = alerts
               /\ Len(NewAlerts) = Len(significant)
               /\ \A i \in 1..Len(NewAlerts) :
                    /\ NewAlerts[i].status = "new"
                    /\ NewAlerts[i].agent_id = a
                    /\ NewAlerts[i].details = significant[i]
                    /\ NewAlerts[i].severity = significant[i].severity
               /\ (CountSeverity(last'.anomalies, "medium")
                     + CountSeverity(last'.anomalies, "low") > 0)
                  => \/ FGt(anomaly_scores'[a], ScoreOf(anomaly_scores, a))
                     \/ anomaly_scores'[a] = F1]_vars

\* C10 witness: a call gave a medium and a low finding and no alert, after
\* an earlier call raised one.
C10_Witness ==
    /\ CountSeverity(last.anomalies, "medium") = 1
    /\ CountSeverity(last.anomalies, "low") = 1
    /\ Len(alerts) = 1
    /\ alerts[1].status = "new"

\* ---------------------------------------------------------------------
\* C11: the alert log is append-only: every step keeps the alerts already
\* in the log, in place and with every field (the status too) as it was.
C11_AlertLogAppendOnly ==
    [][/\ Len(alerts') >= Len(alerts)
       /\ SubSeq(alerts', 1, Len(alerts)) = alerts]_vars

\* Two calls have each added an alert; the first one still has status new.
C11_Witness ==
    /\ Len(alerts) >= 2
    /\ alerts[1].timestamp < alerts[Len(alerts)].timestamp
    /\ alerts[1].status = "new"

\* ---------------------------------------------------------------------
\* The lines the step prints, and how many of them announce a response.
NewConsole == SubSeq(console', Len(console) + 1, Len(console'))
Announced(what, agent_id) ==
    Cardinality({i \in 1..Len(NewConsole) : NewConsole[i] = <<what, agent_id>>})

\* The messages the step publishes.
NewBus == SubSeq(bus', Len(bus) + 1, Len(bus'))

\* C17: the response to an alert is fixed by its severity.  In every call,
\* the message published right after a critical alert is an isolate command
\* for the alert's agent, and the security team is notified and the
\* workflows stopped once per critical alert; the message published right
\* after a high alert is a throttle command with rate_limit 10 on the agent's
\* control channel, and the admin is notified once per high alert.  The call
\* publishes one throttle per high alert and no other, and one isolate per
\* critical alert and no other but the one of the score gate.
C17_DispatcherMapping ==
    [][IsCall =>
        LET a == last'.event.agent_id
            critical == CountSeverity(NewAlerts, "critical")
            high == CountSeverity(NewAlerts, "high")
            gate == IF FGt(anomaly_scores'[a], F08) THEN 1 ELSE 0
        IN  /\ \A i \in 1..Len(NewBus) :
                 NewBus[i].channel = AlertsChannel =>
                   /\ i < Len(NewBus)
                   /\ NewBus[i].alert.agent_id = a
                   /\ NewBus[i].alert.severity = "critical" =>
                        IsCommand(NewBus[i + 1], a, "isolate")
                   /\ NewBus[i].alert.severity = "high" =>
                        /\ IsCommand(NewBus[i + 1], a, "throttle")
                        /\ NewBus[i + 1].rate_limit = 10
            /\ Published(a, "throttle") = high
            /\ Published(a, "isolate") = critical + gate
            /\ ControlPublished = high + critical + gate
            /\ Announced("throttle", a) = high
            /\ Announced("notify_admin", a) = high
            /\ Announced("notify_security_team", a) = critical
            /\ Announced("stop_agent_workflows", a) = critical
            /\ Announced("isolate", a) = critical + gate
            /\ Len(NewConsole) = 2 * high + 3 * critical + gate]_vars

\* A high alert and a critical alert have both been answered: a throttle
\* command with rate_limit 10 and an isolate command are on the bus.
C17_Witness ==
    /\ \E i \in 1..Len(alerts) : alerts[i].severity = "high"
    /\ \E i \in 1..Len(alerts) : alerts[i].severity = "critical"
    /\ \E i \in 1..Len(bus) : \E a \in Agents :
         IsCommand(bus[i], a, "throttle") /\ bus[i].rate_limit = 10
    /\ \E i \in 1..Len(bus) : \E a \in Agents : IsCommand(bus[i], a, "isolate")
    /\ \E i \in 1..Len(console) : console[i][1] = "notify_admin"
    /\ \E i \in 1..Len(console) : console[i][1] = "stop_agent_workflows"

\* ---------------------------------------------------------------------
\* The weight of a severity, as the double nearest to the decimal.
C18_Weight(severity) ==
    CASE severity = "critical" -> F03
      [] severity = "high" -> F02
      [] severity = "medium" -> F01
      [] severity = "low" -> F005

\* score + w1 + w2 + ..., added from the left, one finding at a time.
RECURSIVE C18_AddEach(_, _)
C18_AddEach(score, findings) ==
    IF findings = <<>> THEN score
    ELSE C18_AddEach(FAdd(score, C18_Weight(findings[1].severity)), Tail(findings))

\* w1 + w2 + ..., the sum of the weights alone.
RECURSIVE C18_SumOfWeights(_)
C18_SumOfWeights(findings) ==
    IF findings = <<>> THEN F0
    ELSE FAdd(C18_SumOfWeights(SubSeq(findings, 1, Len(findings) - 1)),
              C18_Weight(findings[Len(findings)].severity))

\* min(1, max(0, x))
C18_Clip(x) == IF FGt(x, F1) THEN F1 ELSE IF FLt(x, F0) THEN F0 ELSE x

\* Two doubles in [0, 2) differ by at most 2^-52, one rounding step.
C18_Near(x, y) ==
    /\ x.hi - y.hi \in {-1, 0, 1}
    /\ (x.hi - y.hi) * LimbBase + x.lo - y.lo \in -32..32

\* C18: a call with findings stores for its agent min(1, max(0, s)), where s
\* is the agent's old score (0 for an agent with none) with the weight of
\* each finding added in list order: 0.30 critical, 0.20 high, 0.10 medium,
\* 0.05 low.  No time elapses inside the update, so this is
\* min(1, old + sum of the weights), up to the rounding of the double
\* additions.  A call with no finding leaves the score as it was.
C18_UpdateAddsWeights ==
    [][IsCall =>
        \A a \in {last'.event.agent_id} :
        \A old \in {ScoreOf(anomaly_scores, a)} :
        \A findings \in {last'.anomalies} :
        \A s \in {C18_AddEach(old, findings)} :
        \A whole \in {FAdd(old, C18_SumOfWeights(findings))} :
            /\ anomaly_scores'[a] = C18_Clip(s)
            /\ C18_Near(anomaly_scores'[a], C18_Clip(whole))
            /\ \A i \in 1..Len(findings) :
                 findings[i].severity \in {"critical", "high", "medium", "low"}
            /\ findings = <<>> => anomaly_scores'[a] = old]_vars

\* The latest call had two findings and raised a score that was already
\* above 0 to a value below the clamp.
C18_Witness ==
    /\ Len(last.anomalies) >= 2
    /\ last.event.agent_id \in DOMAIN anomaly_scores
    /\ FGt(anomaly_scores[last.event.agent_id], FAdd(F005, F03))
    /\ FLt(anomaly_scores[last.event.agent_id], F1)

\* ---------------------------------------------------------------------
\* The payload has no value under the key.
Lacks(event_data, key) == ~ \E p \in event_data : p[1] = key

\* C19: a data_access event whose payload has no `sensitive` field is
\* handled without an exception: the sensitive-data rule gives no finding,
\* the unusual-hours rule is still evaluated (one finding exactly in the
\* unusual hours), and the event's timestamp is the newest entry of the
\* window of (agent, data_access).
C19_MissingFieldNoRaise ==
    [][(IsCall /\ last'.event.event_type = "data_access"
               /\ Lacks(last'.event.payload, "sensitive")) =>
        LET a == last'.event.agent_id
            key == <<a, "data_access">>
        IN  /\ last'.raised = ""
            /\ CountType(last'.anomalies, "SENSITIVE_DATA_ACCESS") = 0
            /\ CountType(last'.anomalies, "UNUSUAL_TIME_ACCESS")
                 = (IF IsUnusualHour(clock) THEN 1 ELSE 0)
            /\ Len(last'.anomalies)
                 = CountType(last'.anomalies, "UNUSUAL_TIME_ACCESS")
            /\ key \in DOMAIN agent_behaviors'
            /\ agent_behaviors'[key].timestamps # <<>>
            /\ agent_behaviors'[key].timestamps[Len(agent_behaviors'[key].timestamps)]
                 = clock]_vars

\* A data_access event with an empty payload was handled at night: the
\* unusual-hours rule alone gave a finding and the event is in the window.
C19_Witness ==
    /\ last.event # NoEvent
    /\ last.event.event_type = "data_access"
    /\ Lacks(last.event.payload, "sensitive")
    /\ last.raised = ""
    /\ Len(last.anomalies) = 1
    /\ last.anomalies[1].type = "UNUSUAL_TIME_ACCESS"
    /\ <<last.event.agent_id, "data_access">> \in DOMAIN agent_behaviors

\* ---------------------------------------------------------------------
\* The step is a status query: no event is handled, the clock stands.
IsQuery == delivered' = delivered /\ clock' = clock

\* C20: a status query, get_agent_status for an agent with or without
\* entries or get_dashboard_data, leaves the window map, the score map, the
\* alert log and the isolation store as they were, adds no key to the window
\* map or the score map, and publishes nothing.
C20_QueriesReadOnly ==
    [][IsQuery =>
        /\ agent_behaviors' = agent_behaviors
        /\ anomaly_scores' = anomaly_scores
        /\ alerts' = alerts
        /\ isolations' = isolations
        /\ DOMAIN agent_behaviors' = DOMAIN agent_behaviors
        /\ DOMAIN anomaly_scores' = DOMAIN anomaly_scores
        /\ bus' = bus]_vars

\* get_agent_status has answered for an agent with no entry anywhere, while
\* another agent is above the threshold, isolated and has alerts in the log.
C20_Witness ==
    /\ reply.query = "get_agent_status"
    /\ reply.agent_id \notin DOMAIN anomaly_scores
    /\ reply.result.status = "monitored"
    /\ reply.result.anomaly_score = F0
    /\ \E a \in DOMAIN anomaly_scores :
         /\ FGt(anomaly_scores[a], F08)
         /\ a \in DOMAIN isolations
    /\ alerts # <<>>

\* ---------------------------------------------------------------------
\* C14: whatever is wrong with the rules file (missing, unreadable, not
\* parseable), the constructor returns a monitor, and that monitor runs on
\* the built-in defaults (100 calls and 50 messages a minute, 10 failures
\* an hour).
C14_ConfigFallsBackToDefaults ==
    /\ Constructed
    /\ LoadError(rules_file) # "" => rules = get_default_rules

\* ---------------------------------------------------------------------
\* The step takes a message from the subscription.
IsTake == taken' # taken

\* The message the step takes.
TakenMessage == CHOOSE message \in {inbox[i] : i \in 1..Len(inbox)} :
                    message.seq = taken'

\* C12: an error while one bus message is handled (a body that is not JSON,
\* or an exception of the handler) does not end the subscription loop: a
\* running loop is still running after every message it takes.
C12_LoopSurvivesErrors ==
    [][(loop.state = "running" /\ IsTake) => loop'.state = "running"]_vars

\* C13: a control command that cannot be published is dropped: when the
\* score gate of a call wants to isolate the agent and the publish fails,
\* the call still returns normally and a running loop keeps running.
C13_PublishFailureBestEffort ==
    [][(IsCall /\ ~bus_up /\ NewAlerts = <<>>
               /\ FGt(anomaly_scores'[last'.event.agent_id], F08)) =>
        /\ last'.raised = ""
        /\ loop'.state = loop.state]_vars

\* C15: a message on a control channel agent:{id}:control is never handled
\* as an agent event: taking it changes no window and no score.
C15_ControlChannelNotConsumed ==
    [][(IsTake /\ Len(TakenMessage.channel) = 3
               /\ TakenMessage.channel[3] = "control") =>
        /\ agent_behaviors' = agent_behaviors
        /\ anomaly_scores' = anomaly_scores
        /\ delivered' = delivered]_vars

\* C16: the loop takes the messages one at a time in the order they were
\* received: each take hands out the oldest waiting message, the one
\* numbered right after the previous take, handles at most one event, and
\* the messages that wait afterwards are all newer.  When the handler
\* returns, the event's effects are all in place: its timestamp is the newest
\* of its window, its findings are scored, one alert stands for each high or
\* critical finding, and an agent above 0.8 has its isolate command
\* published and its isolation stored with this event's time.
C16_InOrderOneAtATime ==
    [][IsTake =>
        /\ inbox # <<>>
        /\ inbox[1].seq = taken'
        /\ taken' = taken + 1
        /\ delivered' \in {delivered, delivered + 1}
        /\ \A i \in 1..Len(inbox') : inbox'[i].seq > taken'
        /\ \A i \in 1..(Len(inbox') - 1) : inbox'[i].seq < inbox'[i + 1].seq
        /\ (IsCall /\ last'.raised = "") =>
             LET a == last'.event.agent_id
                 window == agent_behaviors'[<<a, "message_sent">>].timestamps
             IN  /\ last'.event.payload
                      = {<<"channel", inbox[1].channel>>,
                         <<"data", inbox[1].data.text>>}
                 /\ window[Len(window)] = clock
                 /\ anomaly_scores'[a]
                      = update_anomaly_score(anomaly_scores, a, last'.anomalies)[a]
                 /\ Len(NewAlerts) = CountSeverity(last'.anomalies, "high")
                                     + CountSeverity(last'.anomalies, "critical")
                 /\ FGt(anomaly_scores'[a], F08) =>
                      /\ Published(a, "isolate") >= 1
                      /\ isolations'[a].timestamp = clock]_vars

\* The loop has handled a message of X and then a message of Y and is
\* still running.
C16_Witness ==
    /\ loop.state = "running"
    /\ taken >= 3
    /\ <<"X", "message_sent">> \in DOMAIN agent_behaviors
    /\ <<"Y", "message_sent">> \in DOMAIN agent_behaviors
    /\ last.event.agent_id = "Y"
    /\ last.raised = ""

\* ---------------------------------------------------------------------
\* C21: a shutdown signal stops the loop: once the task is cancelled, the
\* loop eventually is no longer running (and so takes no further event).
C21_CleanShutdown == cancel_requested ~> (loop.state # "running")

\* ---------------------------------------------------------------------
\* The isolate commands of the step that answer no critical alert: those of
\* the score gate.
GateIsolates(a) == Published(a, "isolate") - CountSeverity(NewAlerts, "critical")

\* C22: every call, with findings or without, ends with the score gate: it
\* publishes one isolate command for the event's agent, as the call's last
\* message, if the agent's score is then strictly above 0.8, and none if the
\* score is 0.8 or less.  Nothing remembers an earlier isolation, so each
\* call for an agent above 0.8 publishes the command again.  No command is
\* published for any other agent.
C22_GateIffAboveThreshold ==
    [][IsCall =>
        \A a \in {last'.event.agent_id} :
            /\ FGt(anomaly_scores'[a], F08) =>
                 /\ GateIsolates(a) = 1
                 /\ IsCommand(NewBus[Len(NewBus)], a, "isolate")
                 /\ isolations'[a].timestamp = clock
                 /\ isolations'[a].ueba_score = anomaly_scores'[a]
            /\ FLe(anomaly_scores'[a], F08) => GateIsolates(a) = 0
            /\ \A b \in Agents \ {a} : Published(b, "isolate") = 0]_vars

\* The latest call had no finding and its agent, above 0.8 since an earlier
\* call, was isolated again: the bus ends with the repeated command.
C22_Witness ==
    /\ last.event # NoEvent
    /\ last.anomalies = <<>>
    /\ FGt(anomaly_scores[last.event.agent_id], F08)
    /\ Len(bus) >= 2
    /\ IsCommand(bus[Len(bus)], last.event.agent_id, "isolate")
    /\ IsCommand(bus[Len(bus) - 1], last.event.agent_id, "isolate")
    /\ Cardinality({i \in 1..Len(bus) :
                      IsCommand(bus[i], last.event.agent_id, "isolate")}) >= 5

\* ---------------------------------------------------------------------
\* No timestamp of the window is older than one hour at the time given.
Fresh(timestamps, now) ==
    \A i \in 1..Len(timestamps) : timestamps[i] >= now - 3600

\* C23: when a call (a record with its count queries) or a status query
\* ends, no window holds a timestamp older than one hour, and every
\* count_last_hour the status query reports counts only timestamps of the
\* last hour.
C23_NoStaleAfterAccess ==
    [][(IsCall \/ IsQuery) =>
        /\ \A key \in DOMAIN agent_behaviors' :
             Fresh(agent_behaviors'[key].timestamps, clock)
        /\ reply'.query = "get_agent_status" =>
             \A event_type \in DOMAIN reply'.result.behavior_summary :
                 reply'.result.behavior_summary[event_type].count_last_hour
                   = Cardinality(
                       {i \in 1..Len(agent_behaviors[<<reply'.agent_id, event_type>>].timestamps) :
                          agent_behaviors[<<reply'.agent_id, event_type>>].timestamps[i]
                            >= clock - 3600})]_vars

\* ---------------------------------------------------------------------
\* The timestamps never decrease along the window.
NonDecreasing(timestamps) ==
    \A i \in 1..(Len(timestamps) - 1) : timestamps[i] <= timestamps[i + 1]

\* The entries of a sequence from position n on.
From(timestamps, n) == SubSeq(timestamps, n, Len(timestamps))

\* C24: every step leaves every window a non-decreasing sequence of
\* timestamps, and a call leaves the window of its key as the old window
\* plus the new timestamp with a prefix removed, holding no entry older
\* than one hour at any position.
C24_WindowsOrderedAndTrimmed ==
    [][/\ \A key \in DOMAIN agent_behaviors' :
            NonDecreasing(agent_behaviors'[key].timestamps)
       /\ IsCall =>
            \A key \in {<<last'.event.agent_id, last'.event.event_type>>} :
            \A before \in {IF key \in DOMAIN agent_behaviors
                           THEN Append(agent_behaviors[key].timestamps, clock)
                           ELSE <<clock>>} :
            \A after \in {agent_behaviors'[key].timestamps} :
                /\ Fresh(after, clock)
                /\ \E n \in 1..Len(before) : after = From(before, n)
                /\ \A i \in 1..(Len(before) - Len(after)) :
                     before[i] < clock - 3600]_vars

\* A call has evicted two stale entries at once: the window of its key
\* holds the new timestamp alone, after two events of an earlier minute.
C24_Witness ==
    \E key \in DOMAIN agent_behaviors :
        /\ agent_behaviors[key].timestamps = <<clock>>
        /\ \E minute_key \in DOMAIN agent_behaviors[key].minutes :
             /\ minute_key < MinuteKey(clock) - 60
             /\ agent_behaviors[key].minutes[minute_key] = 2

\* ---------------------------------------------------------------------
\* The number of retained timestamps of a key that are at or after `since`.
RetainedFrom(key, since) ==
    IF key \in DOMAIN agent_behaviors
    THEN Cardinality({i \in 1..Len(agent_behaviors[key].timestamps) :
                        agent_behaviors[key].timestamps[i] >= since})
    ELSE 0

\* C25: the count queries return the number of retained timestamps t with
\* t >= since, a timestamp equal to since included: the calls of the last
\* minute are those at or after now - 60 s, the failures of the last hour
\* those at or after now - 3600 s; a key never recorded gives 0.
C25_CountSinceInclusive ==
    \A a \in Agents :
        /\ get_calls_in_last_minute(agent_behaviors, a, "api_call", clock)
             = RetainedFrom(<<a, "api_call">>, clock - 60)
        /\ get_calls_in_last_minute(agent_behaviors, a, "message_sent", clock)
             = RetainedFrom(<<a, "message_sent">>, clock - 60)
        /\ get_failures_last_hour(agent_behaviors, a, clock)
             = RetainedFrom(<<a, "request_failed">>, clock - 3600)

\* ---------------------------------------------------------------------
\* The number of timestamps after `since` in the window of a key once the
\* event is recorded.
RecordedAfter(key, since) ==
    Cardinality({i \in 1..Len(agent_behaviors'[key].timestamps) :
                   agent_behaviors'[key].timestamps[i] > since})

\* What one rule yields on its own, as <<type, severity>>, or nothing.
Yields(condition, type, severity) ==
    IF condition THEN <<<<type, severity>>>> ELSE <<>>

\* The findings of the five rules, each evaluated on its own, in rule order.
EachRuleAlone(a, event_type, payload, now) ==
    Yields(event_type = "api_call"
             /\ RecordedAfter(<<a, "api_call">>, now - 60) > rules.max_calls_per_minute,
           "API_CALL_FREQUENCY", "high")
    \o Yields(event_type = "message_sent"
                /\ RecordedAfter(<<a, "message_sent">>, now - 60)
                     > rules.max_messages_per_minute,
              "MESSAGE_FREQUENCY", "medium")
    \o Yields(HourOf(now) < 6 \/ HourOf(now) > 22, "UNUSUAL_TIME_ACCESS", "low")
    \o Yields(event_type = "request_failed"
                /\ RecordedAfter(<<a, "request_failed">>, now - 3600)
                     > rules.max_failed_requests_per_hour,
              "HIGH_FAILURE_RATE", "high")
    \o Yields(event_type = "data_access" /\ <<"sensitive", TRUE>> \in payload,
              "SENSITIVE_DATA_ACCESS", "critical")

\* C26: the findings of a call are the concatenation of what each of the
\* five rules yields on its own, so one event can have several findings: a
\* sensitive data_access in the unusual hours has a low UNUSUAL_TIME_ACCESS
\* and a critical SENSITIVE_DATA_ACCESS finding, and the score rises by
\* 0.05 and 0.30 (up to the clamp at 1).
C26_RulesIndependent ==
    [][IsCall =>
        \A event \in {last'.event} :
        \A findings \in {last'.anomalies} :
            /\ [i \in 1..Len(findings) |-> <<findings[i].type, findings[i].severity>>]
                 = EachRuleAlone(event.agent_id, event.event_type, event.payload, clock)
            /\ (/\ event.event_type = "data_access"
                /\ event.payload = SensitivePayload
                /\ IsUnusualHour(clock)) =>
                 /\ Len(findings) = 2
                 /\ anomaly_scores'[event.agent_id]
                      = C18_Clip(FAdd(FAdd(ScoreOf(anomaly_scores, event.agent_id),
                                           F005), F03))]_vars

\* A sensitive data_access at 03:00 by an agent without a score gave two
\* findings, low then critical, and a score of 0.35.
C26_Witness ==
    /\ last.event.event_type = "data_access"
    /\ last.event.payload = SensitivePayload
    /\ HourOf(last.event.timestamp) = 3
    /\ Len(last.anomalies) = 2
    /\ last.anomalies[1].severity = "low"
    /\ last.anomalies[2].severity = "critical"
    /\ anomaly_scores[last.event.agent_id] = FAdd(F005, F03)

\* ---------------------------------------------------------------------
\* C27: every call, whatever the event type, has exactly one
\* UNUSUAL_TIME_ACCESS finding, of severity low, if the hour of the event is
\* one of 0..5 or 23, and none if it is one of 6..22.
C27_UnusualHours ==
    [][IsCall =>
        \A findings \in {last'.anomalies} :
        \A hour \in {(last'.event.timestamp \div 3600) % 24} :
            /\ hour \in (0..5) \cup {23} =>
                 /\ CountType(findings, "UNUSUAL_TIME_ACCESS") = 1
                 /\ \A i \in 1..Len(findings) :
                      findings[i].type = "UNUSUAL_TIME_ACCESS" =>
                        findings[i].severity = "low" /\ findings[i].value = hour
            /\ hour \in 6..22 => CountType(findings, "UNUSUAL_TIME_ACCESS") = 0]_vars

\* A failed request in the last second before 06:00 got the finding.
C27_Witness ==
    /\ last.event.event_type = "request_failed"
    /\ last.event.timestamp = Hms(5, 59, 59)
    /\ Len(last.anomalies) = 1
    /\ last.anomalies[1].type = "UNUSUAL_TIME_ACCESS"
    /\ last.anomalies[1].severity = "low"

\* ---------------------------------------------------------------------
\* Failure scenario: under the default policy agent X reports failed
\* requests, interleaved with a failed request of agent Y and an api_call
\* of agent X, at one moment and one second more than an hour later.
\* ---------------------------------------------------------------------
FailureTimePoints == {StartTime, StartTime + 3601}

InitFailures == InitWith({"missing"})

FailureEvents ==
    {<<"X", "request_failed">>, <<"Y", "request_failed">>, <<"X", "api_call">>}

FailureCall(event) ==
    /\ delivered < MaxFailures
    /\ Handle(event[1], event[2], EmptyPayload)
    /\ delivered' = delivered + 1
    /\ UNCHANGED callFrame

NextFailures ==
    \/ \E event \in FailureEvents : FailureCall(event)
    \/ \E t \in FailureTimePoints : Tick(t)

SpecFailures == InitFailures /\ [][NextFailures]_vars

\* The failed requests an agent has on record.
FailureWindow(behaviors, agent_id) ==
    IF <<agent_id, "request_failed">> \in DOMAIN behaviors
    THEN behaviors[<<agent_id, "request_failed">>].timestamps ELSE <<>>

\* The recorded failed requests of an agent less than an hour before now.
FailuresWithinHour(behaviors, agent_id, now) ==
    Cardinality({i \in DOMAIN FailureWindow(behaviors, agent_id) :
                    now - FailureWindow(behaviors, agent_id)[i] < 3600})

\* C28: under the default policy a HIGH_FAILURE_RATE finding is raised only
\* by a request_failed event; with n the number of that agent's failed
\* requests less than an hour old, the event itself included, failures 1 to
\* 10 of the hour raise none and every later one raises exactly one, high,
\* with value n and threshold 10; an event of another type or of another
\* agent leaves the agent's record of failed requests as it was.
C28_FailureRateRule ==
    [][IsCall =>
        \A event \in {last'.event} :
        \A findings \in {last'.anomalies} :
        \A n \in {FailuresWithinHour(agent_behaviors, last'.event.agent_id,
                                     last'.event.timestamp) + 1} :
            /\ event.event_type # "request_failed" =>
                 /\ CountType(findings, "HIGH_FAILURE_RATE") = 0
                 /\ \A a \in Agents :
                      FailureWindow(agent_behaviors', a)
                        = FailureWindow(agent_behaviors, a)
            /\ event.event_type = "request_failed" =>
                 /\ n <= 10 => CountType(findings, "HIGH_FAILURE_RATE") = 0
                 /\ n > 10 =>
                      /\ CountType(findings, "HIGH_FAILURE_RATE") = 1
                      /\ \A i \in 1..Len(findings) :
                           findings[i].type = "HIGH_FAILURE_RATE" =>
                             /\ findings[i].severity = "high"
                             /\ findings[i].value = n
                             /\ findings[i].threshold = 10
                 /\ \A a \in Agents \ {event.agent_id} :
                      FailureWindow(agent_behaviors', a)
                        = FailureWindow(agent_behaviors, a)]_vars

\* C28 witness: the eleventh failed request of agent X within the hour,
\* after a failed request of agent Y and an api_call of agent X, raises the
\* finding with value 11.
C28_Witness ==
    /\ last.event.agent_id = "X"
    /\ last.event.event_type = "request_failed"
    /\ Len(FailureWindow(agent_behaviors, "X")) = 11
    /\ Len(FailureWindow(agent_behaviors, "Y")) >= 1
    /\ \E i \in 1..Len(last.anomalies) :
         /\ last.anomalies[i].type = "HIGH_FAILURE_RATE"
         /\ last.anomalies[i].severity = "high"
         /\ last.anomalies[i].value = 11

\* C29: a call announces increase_monitoring for its agent once for every
\* medium finding it yields, and its medium and low findings cause nothing
\* else: the commands it publishes and the other announcements it makes are
\* those of its high and critical alerts and of the score gate.
C29_MediumIncreasesMonitoring ==
    [][IsCall =>
        \A a \in {last'.event.agent_id} :
        \A medium \in {CountSeverity(last'.anomalies, "medium")} :
        \A high \in {CountSeverity(NewAlerts, "high")} :
        \A critical \in {CountSeverity(NewAlerts, "critical")} :
        \A gate \in {IF FGt(anomaly_scores'[a], F08) THEN 1 ELSE 0} :
            /\ Announced("increase_monitoring", a) = medium
            /\ ControlPublished = high + critical + gate
            /\ Len(NewConsole) = medium + 2 * high + 3 * critical + gate]_vars

\* C30: a call that yields no finding creates no score entry, so the number
\* of monitored agents the dashboard reports stays as it was.
C30_ScoreEntryOnlyAfterFinding ==
    [][IsCall /\ last'.anomalies = <<>> =>
        /\ DOMAIN anomaly_scores' = DOMAIN anomaly_scores
        /\ get_dashboard_data(anomaly_scores', alerts', clock',
                              learning_start').total_agents_monitored
             = get_dashboard_data(anomaly_scores, alerts, clock,
                                  learning_start).total_agents_monitored]_vars

\* C31: the isolation store holds one record per agent.  A step that
\* publishes an isolate command for an agent leaves under the agent's key the
\* record of that isolation, with the agent's score of that moment; a step
\* that publishes none leaves the agent's record as it was; and an agent has
\* a record exactly when an isolate command for it is on the bus.
C31_IsolationStore ==
    [][\A a \in Agents :
        /\ Published(a, "isolate") >= 1 =>
             /\ a \in DOMAIN isolations'
             /\ isolations'[a] = [agent_id |-> a, action |-> "isolated",
                                  timestamp |-> clock,
                                  ueba_score |-> anomaly_scores'[a]]
        /\ Published(a, "isolate") = 0 =>
             /\ a \in DOMAIN isolations' <=> a \in DOMAIN isolations
             /\ a \in DOMAIN isolations => isolations'[a] = isolations[a]
        /\ a \in DOMAIN isolations' <=>
             \E i \in 1..Len(bus') : IsCommand(bus'[i], a, "isolate")]_vars

\* The alerts a step publishes on ueba:alerts, in order.
NewAlertPublications ==
    LET OnAlerts(msg) == msg.channel = AlertsChannel
        published == SelectSeq(NewBus, OnAlerts)
    IN  [i \in 1..Len(published) |-> published[i].alert]

\* C32: a call publishes on ueba:alerts exactly the alerts it appends to the
\* alert log, each once and in the order of the log, and each before the
\* control command that answers it; so when the call ends the log is as long
\* as the list of publications on ueba:alerts.
C32_AlertPublishedOnce ==
    [][IsCall =>
        /\ NewAlertPublications = NewAlerts
        /\ \A i \in 1..Len(NewBus) :
             NewBus[i].channel = AlertsChannel =>
               /\ i < Len(NewBus)
               /\ NewBus[i + 1].channel = ControlChannel(NewBus[i].alert.agent_id)
        /\ Cardinality({i \in 1..Len(bus') : bus'[i].channel = AlertsChannel})
             = Len(alerts')]_vars

\* C33: a command the monitor has published never makes the monitor
\* publish a further command: the pass of the loop that takes a message of
\* a control channel publishes nothing, so that once the agents stop
\* publishing the monitor has nothing left to process.
C33_CommandCausesNoCommand ==
    [][(IsTake /\ Len(TakenMessage.channel) = 3
               /\ TakenMessage.channel[3] = "control") =>
        /\ ControlPublished = 0
        /\ bus' = bus
        /\ Len(inbox') < Len(inbox)]_vars

\* C34: every event the subscription loop hands on has the type
\* message_sent, whatever the message holds.  Its findings are
\* MESSAGE_FREQUENCY and UNUSUAL_TIME_ACCESS findings only, it raises no
\* alert and publishes no throttle command, and the only command it can
\* publish is one isolate command for its agent, when the agent's score
\* exceeds 0.8.
C34_BusEventsAreMessageSent ==
    [][(IsTake /\ IsCall) =>
        \A a \in {last'.event.agent_id} :
        \A findings \in {last'.anomalies} :
            /\ last'.event.event_type = "message_sent"
            /\ \A i \in 1..Len(findings) :
                 \/ findings[i].type = "MESSAGE_FREQUENCY" /\ findings[i].severity = "medium"
                 \/ findings[i].type = "UNUSUAL_TIME_ACCESS" /\ findings[i].severity = "low"
            /\ alerts' = alerts
            /\ \A i \in 1..Len(NewBus) : IsCommand(NewBus[i], a, "isolate")
            /\ Len(NewBus) <= 1
            /\ Len(NewBus) = 1 => TooHigh(anomaly_scores'[a])
            /\ (TooHigh(anomaly_scores'[a]) /\ last'.raised = "") => Len(NewBus) = 1]_vars

\* C34 witness: the loop has handed on a message of agent X; the event
\* yielded a MESSAGE_FREQUENCY finding, and the isolate command it published
\* because of the agent's score is the latest message on the bus.
C34_Witness ==
    /\ taken >= 2
    /\ loop.state = "running"
    /\ last.event.event_type = "message_sent"
    /\ last.event.agent_id = "X"
    /\ \E i \in 1..Len(last.anomalies) : last.anomalies[i].type = "MESSAGE_FREQUENCY"
    /\ bus # <<>>
    /\ IsCommand(bus[Len(bus)], "X", "isolate")
    /\ alerts # <<>>
    /\ alerts[Len(alerts)].anomaly_type = "SENSITIVE_DATA_ACCESS"

\* C35: get_agent_status reports an agent as isolated exactly when an
\* isolate command has been published for it, that is when the isolation
\* store holds a record under its key, and as monitored otherwise.
C35_StatusIsolatedIffIsolated ==
    \A a \in QueriedAgents :
      \A status \in {get_agent_status(agent_behaviors, anomaly_scores, alerts, a).result.status} :
        /\ status \in {"isolated", "monitored"}
        /\ status = "isolated" <=> a \in DOMAIN isolations
        /\ status = "isolated" <=>
             \E i \in 1..Len(bus) : IsCommand(bus[i], a, "isolate")

\* Callers whose agent ids and event types hold colons: the agents P and
\* P:Q, the event types api_call and Q:api_call, on the strict rules file.
KeyAgents == {"P", "P:Q"}
KeyEventTypes == {"api_call", "Q:api_call"}

NextKeys ==
    \/ \E agent_id \in KeyAgents, event_type \in KeyEventTypes :
         MonitorAgentBehavior(agent_id, event_type, EmptyPayload)
    \/ \E t \in TimePoints : Tick(t)

SpecKeys == InitGate /\ [][NextKeys]_vars

\* The window of a pair, if it has one.
WindowOf(behaviors, agent_id, event_type) ==
    IF BehaviorKey(agent_id, event_type) \in DOMAIN behaviors
    THEN <<behaviors[BehaviorKey(agent_id, event_type)]>> ELSE <<>>

\* C36: the windows of distinct (agent, event type) pairs and the scores of
\* distinct agents are independent.  A call for one pair leaves the window
\* of every other pair, and so each count taken from it, as it was, creates
\* no window but the pair's own, and leaves the score of every other agent
\* as it was.
C36_WindowsAndScoresIndependent ==
    [][IsCall =>
        \A event \in {last'.event} :
            /\ DOMAIN agent_behaviors'
                 = DOMAIN agent_behaviors
                     \cup {BehaviorKey(event.agent_id, event.event_type)}
            /\ \A a \in Agents \cup KeyAgents, e \in EventTypes \cup KeyEventTypes :
                 <<a, e>> # <<event.agent_id, event.event_type>> =>
                   /\ WindowOf(agent_behaviors', a, e) = WindowOf(agent_behaviors, a, e)
                   /\ get_calls_in_last_minute(agent_behaviors', a, e, clock')
                        = get_calls_in_last_minute(agent_behaviors, a, e, clock)
            /\ DOMAIN anomaly_scores' = DOMAIN anomaly_scores \cup {event.agent_id}
            /\ \A b \in DOMAIN anomaly_scores \ {event.agent_id} :
                 anomaly_scores'[b] = anomaly_scores[b]]_vars

\* C37: the stored score of an agent never decreases and its entry never
\* disappears; so an agent whose score exceeds 0.8 keeps a score above 0.8
\* in every later state, and get_agent_status reports it as isolated from
\* then on.
C37_ScoreNeverDecreases ==
    [][\A a \in DOMAIN anomaly_scores :
        /\ a \in DOMAIN anomaly_scores'
        /\ FLe(anomaly_scores[a], anomaly_scores'[a])
        /\ TooHigh(anomaly_scores[a]) =>
             /\ TooHigh(anomaly_scores'[a])
             /\ get_agent_status(agent_behaviors', anomaly_scores', alerts', a)
                  .result.status = "isolated"]_vars

\* C37 witness: agent X, above 0.8 after three critical findings, has sent
\* one more event, which yielded no finding; its score is the same and its
\* status is isolated.
C37_Witness ==
    /\ delivered >= 4
    /\ last.event.agent_id = "X"
    /\ last.anomalies = <<>>
    /\ "X" \in DOMAIN anomaly_scores
    /\ TooHigh(anomaly_scores["X"])
    /\ FLt(anomaly_scores["X"], F1)
    /\ get_agent_status(agent_behaviors, anomaly_scores, alerts, "X").result.status
         = "isolated"

\* ---------------------------------------------------------------------
\* The master agent (src/agents/master_agent.py): its predictive-
\* maintenance workflow.
\* ---------------------------------------------------------------------

\* The vehicle data a workflow is started with: complete, with and without
\* the flag has_critical_issue, and without its telematics.
VehicleData ==
    {[vehicle_id |-> "V1", telematics |-> "readings"],
     [vehicle_id |-> "V1", telematics |-> "readings", has_critical_issue |-> TRUE],
     [vehicle_id |-> "V1", telematics |-> "readings", has_critical_issue |-> FALSE],
     [vehicle_id |-> "V1"]}

\* The agents that register with the master.
Registrable == {"data_analysis_agent"}

\* The state a run works on when it starts: the master's messages and
\* alerts, and the run's own steps, publishes and recipients so far.
RunStart ==
    [sent |-> master_sent, alerts |-> ueba_alerts, steps |-> <<>>,
     raised |-> "", publishes |-> 0, recipients |-> <<>>]

\* The state a run works on when its sleep is over: the master's messages
\* and alerts as they are by then, and what the run had done before.
RunResumed(run) ==
    [sent |-> master_sent, alerts |-> ueba_alerts, steps |-> run.steps,
     raised |-> "", publishes |-> run.publishes, recipients |-> run.recipients]

\* send_message: publish the message on agent:{recipient}; then
\* monitor_ueba('message_sent', ...), which records an anomaly when the
\* recipient is registered and random.random() < 0.1.  The publish numbered
\* fails_at raises; flagged holds the recipients for which the draw is low.
send_message(w, recipient, action, workflow_id, fails_at, flagged) ==
    IF w.raised # "" THEN w
    ELSE IF w.publishes + 1 = fails_at
    THEN [w EXCEPT !.raised = "ConnectionError", !.publishes = @ + 1]
    ELSE [w EXCEPT
            !.publishes = @ + 1,
            !.recipients = Append(@, recipient),
            !.sent = Append(@, [channel |-> <<"agent", recipient>>,
                                sender |-> "master_agent",
                                recipient |-> recipient, action |-> action,
                                workflow_id |-> workflow_id]),
            !.alerts = IF recipient \in flagged \cap registered_agents
                       THEN Append(@, [type |-> "API_CALL_FREQUENCY",
                                       severity |-> "MEDIUM",
                                       agent |-> recipient])
                       ELSE @]

\* steps.append({"step": n, "action": ..., "status": "completed"})
StepDone(w, number, action) ==
    IF w.raised # "" THEN w
    ELSE [w EXCEPT !.steps = Append(@, [step |-> number, action |-> action,
                                        status |-> "completed"])]

\* Building the payload of step 1 reads vehicle_data["vehicle_id"] and
\* vehicle_data["telematics"]: a missing key raises KeyError.
ReadKeys(w, vehicle_data) ==
    IF {"vehicle_id", "telematics"} \subseteq DOMAIN vehicle_data THEN w
    ELSE [w EXCEPT !.raised = "KeyError"]

\* Variant of the test of the flag that takes every vehicle as critical.
HasCriticalIssueAlways(vehicle_data) == TRUE

\* vehicle_data.get("has_critical_issue", False)
HasCriticalIssue(vehicle_data) ==
    "has_critical_issue" \in DOMAIN vehicle_data /\ vehicle_data.has_critical_issue

\* The try block of orchestrate_predictive_maintenance up to its
\* await asyncio.sleep(1): step 1.
StepsBeforeSleep(vehicle_data, workflow_id, fails_at, flagged) ==
    StepDone(send_message(ReadKeys(RunStart, vehicle_data),
                          "data_analysis_agent", "analyze_telematics",
                          workflow_id, fails_at, flagged),
             1, "data_analysis")

\* The try block after the sleep: steps 2 to 5.
StepsAfterSleep(run, flagged) ==
    LET w2 == StepDone(send_message(RunResumed(run), "diagnosis_agent",
                                    "diagnose_failures", run.workflow_id,
                                    run.fails_at, flagged),
                       2, "failure_diagnosis")
        w3 == StepDone(send_message(w2, "customer_engagement_agent",
                                    "notify_customer", run.workflow_id,
                                    run.fails_at, flagged),
                       3, "customer_engagement")
        w4 == StepDone(send_message(w3, "scheduling_agent", "book_appointment",
                                    run.workflow_id, run.fails_at, flagged),
                       4, "scheduling")
        w5 == IF w2.raised = "" /\ HasCriticalIssue(run.vehicle_data)
              THEN w4 ELSE w2
    IN  StepDone(send_message(w5, "rca_agent", "analyze_root_cause",
                              run.workflow_id, run.fails_at, flagged),
                 5, "rca_analysis")

\* monitor_ueba('workflow_completion', ...): for more than ten steps the
\* anomaly WORKFLOW_COMPLEXITY, which is appended to ueba_alerts as well.
CompletionAnomalies(steps) ==
    IF Len(steps) > 10
    THEN <<[type |-> "WORKFLOW_COMPLEXITY", severity |-> "LOW"]>>
    ELSE <<>>

\* What monitor_ueba('workflow_completion', ...) returns.
CompletionStatus(steps) ==
    [status |-> "monitored",
     anomalies_detected |-> Len(CompletionAnomalies(steps)),
     anomalies |-> CompletionAnomalies(steps)]

\* monitor_ueba('workflow_completion', ...) at the end of the try block: the
\* run with the anomalies found appended to the master's alerts.
MonitorCompletion(w) ==
    IF w.raised # "" THEN w
    ELSE [w EXCEPT !.alerts = @ \o CompletionAnomalies(w.steps)]

\* The except branch: the status a run that raised returns.
FailedStatus(workflow_id, exception) ==
    [workflow_id |-> workflow_id, status |-> "failed", error |-> exception,
     timestamp |-> clock]

\* What the monitor, the data-analysis agent and the accessor hold, which a
\* workflow leaves alone.
notMaster == <<rules_file, rules, learning_start, agent_behaviors,
               anomaly_scores, alerts, bus, isolations, console, last,
               delivered, bus_up, loop, taken, cancel_requested, reply,
               registered_agents, data_windows, readings,
               ueba_monitor_instance, monitors_built, accessor_returns>>

\* The monitor's subscription is open: psubscribe('agent:*') has been done,
\* and nothing ever closes it.
Subscribed == loop.state # "idle"

\* The master publishes on the server the monitor subscribes to (both
\* default to localhost:6379): while the subscription is open it receives
\* every message the master publishes on agent:{recipient}.
MasterPublishes(published) ==
    LET received == IF Subscribed THEN Deliveries(published, sent) ELSE <<>>
    IN  /\ inbox' = inbox \o received
        /\ sent' = sent + Len(received)

\* orchestrate_predictive_maintenance from its call to its first await that
\* suspends, asyncio.sleep(1): step 1.  A run that raises in step 1 returns
\* the failed status at once; any other run waits, with its local state, for
\* the second to pass, and other tasks of the event loop run meanwhile.
StartWorkflow(vehicle_data, fails_at, flagged) ==
    /\ runs < MaxRuns
    /\ runs' = runs + 1
    /\ LET workflow_id == <<"wf", clock>>
           w == StepsBeforeSleep(vehicle_data, workflow_id, fails_at, flagged)
       IN  /\ master_sent' = w.sent
           /\ MasterPublishes(SubSeq(w.sent, Len(master_sent) + 1, Len(w.sent)))
           /\ ueba_alerts' = w.alerts
           /\ IF w.raised # ""
              THEN /\ workflow_status' = FailedStatus(workflow_id, w.raised)
                   /\ run_input' = [vehicle_data |-> vehicle_data,
                                    fails_at |-> fails_at,
                                    recipients |-> w.recipients]
                   /\ in_flight' = in_flight
              ELSE /\ in_flight' = Append(in_flight,
                                          [workflow_id |-> workflow_id,
                                           vehicle_data |-> vehicle_data,
                                           fails_at |-> fails_at,
                                           steps |-> w.steps,
                                           publishes |-> w.publishes,
                                           recipients |-> w.recipients,
                                           wake |-> clock + 1])
                   /\ UNCHANGED <<workflow_status, run_input>>
    /\ UNCHANGED <<clock, workflow_logs, notMaster>>

\* A sequence without its element i.
Without(s, i) == SubSeq(s, 1, i - 1) \o SubSeq(s, i + 1, Len(s))

\* orchestrate_predictive_maintenance from the end of its sleep to its
\* return: steps 2 to 5, monitor_ueba, the completed record appended to the
\* log, or the failed status.  No await in this part suspends.
ResumeWorkflow(i, flagged) ==
    /\ i \in 1..Len(in_flight)
    /\ clock >= in_flight[i].wake
    /\ LET run == in_flight[i]
           w == MonitorCompletion(StepsAfterSleep(run, flagged))
           completed == [workflow_id |-> run.workflow_id,
                         vehicle_id |-> run.vehicle_data.vehicle_id,
                         status |-> "completed", steps |-> w.steps,
                         ueba_status |-> CompletionStatus(w.steps),
                         timestamp |-> clock,
                         duration_seconds |-> 5]
       IN  /\ master_sent' = w.sent
           /\ MasterPublishes(SubSeq(w.sent, Len(master_sent) + 1, Len(w.sent)))
           /\ ueba_alerts' = w.alerts
           /\ workflow_status' = IF w.raised = "" THEN completed
                                 ELSE FailedStatus(run.workflow_id, w.raised)
           /\ workflow_logs' = IF w.raised = "" THEN Append(workflow_logs, completed)
                               ELSE workflow_logs
           /\ run_input' = [vehicle_data |-> run.vehicle_data,
                            fails_at |-> run.fails_at,
                            recipients |-> w.recipients]
           /\ in_flight' = Without(in_flight, i)
    /\ UNCHANGED <<clock, runs, notMaster>>

\* The second of a sleeping run passes.
SleepOver(i) ==
    /\ i \in 1..Len(in_flight)
    /\ Tick(in_flight[i].wake)

\* register_agent
RegisterAgent(agent_id) ==
    /\ registered_agents' = registered_agents \cup {agent_id}
    /\ UNCHANGED <<clock, rules_file, rules, learning_start,
                   agent_behaviors, anomaly_scores,
                   alerts, bus, isolations, console, last, delivered, bus_up,
                   loopVars, reply, master_sent, workflow_logs, ueba_alerts,
                   workflow_status, data_windows, readings,
                   ueba_monitor_instance, monitors_built, runs, run_input,
                   in_flight, accessor_returns>>

\* The publish that fails in a run: none (0) or one of those the run makes,
\* five for a vehicle with a critical issue, three for one without, none
\* for one whose payload cannot be built.
FailsAt(vehicle_data) ==
    IF "telematics" \notin DOMAIN vehicle_data THEN {0}
    ELSE IF HasCriticalIssue(vehicle_data) THEN 0..5
    ELSE 0..3

NextWorkflow ==
    \/ \E agent_id \in Registrable : RegisterAgent(agent_id)
    \/ \E vehicle_data \in VehicleData, flagged \in SUBSET Registrable :
         \E fails_at \in FailsAt(vehicle_data) :
           StartWorkflow(vehicle_data, fails_at, flagged)
    \/ \E i \in 1..MaxRuns : SleepOver(i)
    \/ \E i \in 1..MaxRuns, flagged \in SUBSET Registrable :
         ResumeWorkflow(i, flagged)

\* The master of a deployment without a rules file.
InitWorkflow == InitWith({"missing"})

SpecWorkflow == InitWorkflow /\ [][NextWorkflow]_vars

\* The master and the monitor on one server: the monitor subscribes, a
\* vehicle with a critical issue goes through the workflow, and the loop of
\* the monitor takes what it receives.
NextShared ==
    \/ StartMonitoring
    \/ StartWorkflow([vehicle_id |-> "V1", telematics |-> "readings",
                      has_critical_issue |-> TRUE], 0, {})
    \/ \E i \in 1..MaxRuns : SleepOver(i)
    \/ \E i \in 1..MaxRuns : ResumeWorkflow(i, {})
    \/ LoopStep

SpecShared == InitWorkflow /\ [][NextShared]_vars

\* The monitor has received the five messages of a run, the first before
\* the run slept, and its loop has handled the first as an event of the
\* data-analysis agent.
SharedReceived ==
    /\ loop.state = "running"
    /\ Len(master_sent) = 5
    /\ sent = 6
    /\ last.event.agent_id = "data_analysis_agent"
    /\ last.event.event_type = "message_sent"

\* A run returns in this step: it raised in step 1, or it was resumed.
RunReturns ==
    \/ runs' = runs + 1 /\ in_flight' = in_flight
    \/ Len(in_flight') < Len(in_flight)

\* The recipients of a run, in order, with and without a critical issue.
CriticalOrder ==
    <<"data_analysis_agent", "diagnosis_agent", "customer_engagement_agent",
      "scheduling_agent", "rca_agent">>
PlainOrder == <<"data_analysis_agent", "diagnosis_agent", "rca_agent">>

IsPrefix(s, t) == Len(s) <= Len(t) /\ s = SubSeq(t, 1, Len(s))

\* The recipients of the messages of the master agent, in order.
Recipients(messages) == [i \in 1..Len(messages) |-> messages[i].recipient]

\* C38: a run of the workflow returns completed or failed, failed exactly
\* when one of its steps raises.  A completed run has sent its messages to
\* data analysis, diagnosis, customer engagement and scheduling (these two
\* exactly when has_critical_issue is true) and rca, in this order, has
\* recorded one step per message with strictly increasing numbers, and
\* appends its one completed record to the workflow log when it returns.  A
\* failed run has sent the messages before the step that raised and appends
\* nothing.  No other step of a run changes the log.  Runs that sleep at the
\* same time may send their messages in between each other's.
C38_WorkflowOrder ==
    [][/\ ~RunReturns => workflow_logs' = workflow_logs
       /\ RunReturns =>
            \A result \in {workflow_status'} :
            \A input \in {run_input'} :
            \A expected \in {IF "has_critical_issue" \in DOMAIN input.vehicle_data
                                 /\ input.vehicle_data.has_critical_issue = TRUE
                              THEN CriticalOrder ELSE PlainOrder} :
            \A raises \in {\/ "telematics" \notin DOMAIN input.vehicle_data
                            \/ input.fails_at \in 1..Len(expected)} :
                /\ result.status = (IF raises THEN "failed" ELSE "completed")
                /\ result.status = "completed" =>
                     /\ input.recipients = expected
                     /\ Len(result.steps) = Len(expected)
                     /\ \A i \in 1..(Len(result.steps) - 1) :
                          result.steps[i].step < result.steps[i + 1].step
                     /\ \A i \in 1..Len(result.steps) :
                          result.steps[i].status = "completed"
                     /\ workflow_logs' = Append(workflow_logs, result)
                /\ result.status = "failed" =>
                     /\ result.error \in {"KeyError", "ConnectionError"}
                     /\ workflow_logs' = workflow_logs
                     /\ IsPrefix(input.recipients, expected)
                     /\ "telematics" \notin DOMAIN input.vehicle_data =>
                          input.recipients = <<>>
                     /\ "telematics" \in DOMAIN input.vehicle_data =>
                          Len(input.recipients) = input.fails_at - 1
                /\ \A i \in 1..Len(workflow_logs') :
                     workflow_logs'[i].status = "completed"]_vars

\* C38 witness: two runs started together, one with a critical issue, have
\* both completed; the second run's first message lies between the first
\* run's first and second, and the log holds one record for each, under the
\* same workflow id.
C38_Witness ==
    /\ runs = 2
    /\ in_flight = <<>>
    /\ Recipients(master_sent)
         = <<"data_analysis_agent", "data_analysis_agent", "diagnosis_agent",
             "customer_engagement_agent", "scheduling_agent", "rca_agent",
             "diagnosis_agent", "rca_agent">>
    /\ Len(workflow_logs) = 2
    /\ Len(workflow_logs[1].steps) = 5
    /\ Len(workflow_logs[2].steps) = 3
    /\ workflow_logs[1].workflow_id = workflow_logs[2].workflow_id
    /\ workflow_status = workflow_logs[2]

\* ---------------------------------------------------------------------
\* The data-analysis agent (src/agents/data_analysis_agent.py): its
\* per-vehicle sliding window of readings.
\* ---------------------------------------------------------------------

\* self.window_size
window_size == 100

\* The vehicles that report: V1 steadily, V2 now and then.
VehicleIds == {"V1", "V2"}

\* The readings a vehicle has in its window.
DataWindow(windows, vehicle_id) ==
    IF vehicle_id \in DOMAIN windows THEN windows[vehicle_id] ELSE <<>>

\* Variant of update_data_window that keeps the first window_size readings.
update_data_window_keeping_oldest(windows, vehicle_id, sensor_data) ==
    LET appended == Append(DataWindow(windows, vehicle_id), sensor_data)
    IN  Put(windows, vehicle_id,
            IF Len(appended) > window_size
            THEN SubSeq(appended, 1, window_size)
            ELSE appended)

\* update_data_window: append the reading, keep the last window_size.
update_data_window(windows, vehicle_id, sensor_data) ==
    LET appended == Append(DataWindow(windows, vehicle_id), sensor_data)
    IN  Put(windows, vehicle_id,
            IF Len(appended) > window_size
            THEN SubSeq(appended, Len(appended) - window_size + 1, Len(appended))
            ELSE appended)

\* A vehicle's reading reaches update_data_window; the readings are numbered
\* in the order they arrive.
UpdateDataWindow(vehicle_id) ==
    /\ readings < MaxReadings
    /\ vehicle_id # "V1" =>
         Len(DataWindow(data_windows, vehicle_id)) < MaxOtherReadings
    /\ readings' = readings + 1
    /\ data_windows' = update_data_window(data_windows, vehicle_id,
                                          [vehicle_id |-> vehicle_id,
                                           reading |-> readings + 1])
    /\ UNCHANGED <<clock, rules_file, rules, learning_start,
                   agent_behaviors, anomaly_scores,
                   alerts, bus, isolations, console, last, delivered, bus_up,
                   loopVars, reply, registered_agents, master_sent,
                   workflow_logs, ueba_alerts, workflow_status,
                   ueba_monitor_instance, monitors_built, runs, run_input,
                   in_flight, accessor_returns>>

NextWindows == \E vehicle_id \in VehicleIds : UpdateDataWindow(vehicle_id)

\* The agents of a deployment without a rules file.
InitWindows == InitWith({"missing"})

SpecWindows == InitWindows /\ [][NextWindows]_vars

\* C39: after every update no vehicle's window holds more than 100
\* readings; the window of the vehicle updated is its former window with the
\* new reading at its end, cut at the front to the latest 100, so it holds
\* the vehicle's most recent readings in the order they arrived; and the
\* windows of all other vehicles are as they were.
C39_SlidingWindow ==
    [][readings' = readings + 1 =>
        /\ \A u \in DOMAIN data_windows' : Len(data_windows'[u]) <= 100
        /\ \E v \in VehicleIds :
             \A old \in {DataWindow(data_windows, v)} :
             \A new \in {DataWindow(data_windows', v)} :
                 /\ Len(new) = IF Len(old) < 100 THEN Len(old) + 1 ELSE 100
                 /\ new[Len(new)] = [vehicle_id |-> v, reading |-> readings']
                 /\ \A i \in 1..(Len(new) - 1) :
                      new[i] = old[i + Len(old) + 1 - Len(new)]
                 /\ \A i \in 1..(Len(new) - 1) : new[i].reading < new[i + 1].reading
                 /\ DOMAIN data_windows' = DOMAIN data_windows \cup {v}
                 /\ \A u \in DOMAIN data_windows \ {v} :
                      data_windows'[u] = data_windows[u]]_vars

\* C39 witness: vehicle V1 has sent 101 readings, with one of vehicle V2
\* among them; V1's window holds the latest 100 and has lost the first.
C39_Witness ==
    /\ readings = 102
    /\ DOMAIN data_windows = {"V1", "V2"}
    /\ Len(data_windows["V2"]) = 1
    /\ Len(data_windows["V1"]) = 100
    /\ data_windows["V1"][1].reading > 1
    /\ data_windows["V1"][100].reading = 102

\* ---------------------------------------------------------------------
\* The accessor get_ueba_monitor and the module global it keeps.
\* ---------------------------------------------------------------------

\* _ueba_monitor_instance = None
NoMonitor == [id |-> 0]

\* UEBA_Monitor(): the object numbered n, built on what lies under the
\* default rules path, or the exception its constructor raises.
UEBA_Monitor(n, file) ==
    IF "raised" \in DOMAIN load_rules(file) THEN load_rules(file)
    ELSE [id |-> n, rules |-> load_rules(file)]

\* Variant of get_ueba_monitor that builds a monitor at every call.
get_ueba_monitor_always_new(instance, built, file) ==
    LET monitor == UEBA_Monitor(built + 1, file)
    IN  IF "raised" \in DOMAIN monitor
        THEN [instance |-> instance, built |-> built, result |-> monitor]
        ELSE [instance |-> monitor, built |-> built + 1, result |-> monitor]

\* get_ueba_monitor: build the monitor if the global is None, return the
\* global.  A constructor that raises leaves the global as it was.
get_ueba_monitor(instance, built, file) ==
    IF instance = NoMonitor
    THEN LET monitor == UEBA_Monitor(built + 1, file)
         IN  IF "raised" \in DOMAIN monitor
             THEN [instance |-> instance, built |-> built, result |-> monitor]
             ELSE [instance |-> monitor, built |-> built + 1, result |-> monitor]
    ELSE [instance |-> instance, built |-> built, result |-> instance]

\* A caller asks for the monitor while file lies under the rules path.
GetUebaMonitor(file) ==
    /\ Len(accessor_returns) < MaxAccessorCalls
    /\ LET call == get_ueba_monitor(ueba_monitor_instance, monitors_built, file)
       IN  /\ ueba_monitor_instance' = call.instance
           /\ monitors_built' = call.built
           /\ accessor_returns' = Append(accessor_returns, call.result)
    /\ UNCHANGED <<clock, rules_file, rules, learning_start,
                   agent_behaviors, anomaly_scores,
                   alerts, bus, isolations, console, last, delivered, bus_up,
                   loopVars, reply, registered_agents, master_sent,
                   workflow_logs, ueba_alerts, workflow_status, data_windows,
                   readings, runs, run_input, in_flight>>

NextAccessor == \E file \in ConfigFiles : GetUebaMonitor(file)

SpecAccessor == Init /\ [][NextAccessor]_vars

\* The calls of get_ueba_monitor that returned.
Returned == {i \in 1..Len(accessor_returns) : "raised" \notin DOMAIN accessor_returns[i]}

\* C40: over any sequence of calls of get_ueba_monitor at most one monitor
\* is built, and every call that returns returns that one monitor, the one
\* the global holds; the rules file is read for the first of them only.
C40_SingletonAccessor ==
    /\ monitors_built <= 1
    /\ monitors_built = 1 <=> ueba_monitor_instance # NoMonitor
    /\ monitors_built = 1 <=> Returned # {}
    /\ \A i \in Returned :
         /\ accessor_returns[i] = ueba_monitor_instance
         /\ accessor_returns[i].id = 1
    /\ \A i \in Returned : \A j \in i..Len(accessor_returns) : j \in Returned

\* C40 witness: after a call whose constructor raised, three calls have
\* returned the same monitor, built from the defaults.
C40_Witness ==
    /\ Len(accessor_returns) = 4
    /\ Returned = {2, 3, 4}
    /\ accessor_returns[2] = accessor_returns[4]
    /\ accessor_returns[3] = ueba_monitor_instance
    /\ ueba_monitor_instance.rules = get_default_rules
    /\ monitors_built = 1

====
